---- MODULE Spec2Model ----
(***************************************************************************)
(* Model of the BH_Tracker client-side metrics aggregation engine          *)
(* (src/src/lib/metrics.ts and the helpers of                              *)
(* src/src/components/Dashboard.tsx).                                      *)
(*                                                                         *)
(* An event slice is a sequence of event records: the events state of the  *)
(* fetch hooks (useUsageEvents, useTerminalEvents), which page through the *)
(* row store and hand the slice to the dashboards.  Every aggregation      *)
(* function is an operator computed the way the code computes it: a JS Map *)
(* is a sequence of [k, v] entries in insertion order, a JS Set is a set,  *)
(* Array.prototype.sort is a stable insertion sort.  Instants are epoch    *)
(* milliseconds, a Date that does not parse has the time value NaN, and a  *)
(* day key 'YYYY-MM-DD' is the number of the UTC day.                      *)
(***************************************************************************)
EXTENDS Integers, Sequences, FiniteSets, TLC

VARIABLES events, range, call, loading, error, truncated, enabled, fetches, store

\* The state of the fetch hook besides events and range, and the row store it reads.
hookVars == <<loading, error, truncated, enabled, fetches, store>>

vars == <<events, range, call, hookVars>>

(***************************************************************************)
(* Bounds of the model.                                                    *)
(***************************************************************************)
MaxLen == 3
MaxDay == 2
MaxBuckets == 5
MaxWindow == 7
MaxLimit == 3
\* The paging of the fetch hooks, 1000 rows a page, 200000 rows at most and 4
\* requests at a time in the code, over a store of a few rows; and the number of
\* fetches a behaviour starts.
pageSize == 2
maxRows == 8
maxConcurrency == 2
MaxFetches == 2

(***************************************************************************)
(* Values of the program.                                                  *)
(***************************************************************************)
Null == "<null>"

\* The fetch hook as useState initializes it, with no fetch started.
HookIdle ==
  /\ loading = FALSE
  /\ error = Null
  /\ truncated = FALSE
  /\ enabled = FALSE
  /\ fetches = <<>>
  /\ store = [size |-> 0, message |-> ""]

NaN == -1
InvalidDay == -1
DAY_MS == 86400000
EMPTY_FILTER_VALUE == "__empty__"
LOVABLE_FILTER_VALUE == "__lovable__"
CONTENT_EVENT_NAMES == {"report_view", "report_download", "content_view", "content_download"}
AI_MODULE_DEFS ==
  <<[key |-> "analysis_run", label |-> "Analysis"], [key |-> "validator_run", label |-> "Validator"],
    [key |-> "qualitativo_run", label |-> "Qualitativo"], [key |-> "valuai_run", label |-> "ValuAI"]>>
AI_MODULE_KEYS == {AI_MODULE_DEFS[i].key : i \in 1..Len(AI_MODULE_DEFS)}

\* JS truthiness of a string | null value: null and '' are falsy.
Truthy(s) == s # Null /\ s # ""

\* Strings are sequences of characters: s[i] is SubSeq(s, i, i).
CharAt(s, i) == SubSeq(s, i, i)

Drop(s, n) == SubSeq(s, n + 1, Len(s))

StartsWith(s, prefix) == Len(s) >= Len(prefix) /\ SubSeq(s, 1, Len(prefix)) = prefix

\* String.prototype.includes
Includes(s, part) ==
  \E i \in 1..(Len(s) - Len(part) + 1) : SubSeq(s, i, i + Len(part) - 1) = part

\* The position of the first character of s that is in chars, 0 when there is none.
IndexOfAny(s, chars) ==
  IF \E i \in 1..Len(s) : CharAt(s, i) \in chars
    THEN CHOOSE i \in 1..Len(s) :
           CharAt(s, i) \in chars /\ \A j \in 1..(i - 1) : CharAt(s, j) \notin chars
    ELSE 0

WhiteSpace == {" ", "\t", "\n", "\r"}

RECURSIVE TrimStart(_)
TrimStart(s) == IF Len(s) > 0 /\ CharAt(s, 1) \in WhiteSpace THEN TrimStart(Drop(s, 1)) ELSE s

RECURSIVE TrimEnd(_)
TrimEnd(s) ==
  IF Len(s) > 0 /\ CharAt(s, Len(s)) \in WhiteSpace THEN TrimEnd(SubSeq(s, 1, Len(s) - 1)) ELSE s

\* String.prototype.trim
Trim(s) == TrimEnd(TrimStart(s))

\* The lower-case letter of every upper-case letter.
LowerCaseOf ==
  [c \in {"A", "B", "C", "D", "E", "F", "G", "H", "I", "J", "K", "L", "M", "N", "O", "P", "Q",
          "R", "S", "T", "U", "V", "W", "X", "Y", "Z"} |->
     CASE c = "A" -> "a" [] c = "B" -> "b" [] c = "C" -> "c" [] c = "D" -> "d" [] c = "E" -> "e"
       [] c = "F" -> "f" [] c = "G" -> "g" [] c = "H" -> "h" [] c = "I" -> "i" [] c = "J" -> "j"
       [] c = "K" -> "k" [] c = "L" -> "l" [] c = "M" -> "m" [] c = "N" -> "n" [] c = "O" -> "o"
       [] c = "P" -> "p" [] c = "Q" -> "q" [] c = "R" -> "r" [] c = "S" -> "s" [] c = "T" -> "t"
       [] c = "U" -> "u" [] c = "V" -> "v" [] c = "W" -> "w" [] c = "X" -> "x" [] c = "Y" -> "y"
       [] c = "Z" -> "z"]

LowerChar(c) == IF c \in DOMAIN LowerCaseOf THEN LowerCaseOf[c] ELSE c

\* String.prototype.toLowerCase
RECURSIVE ToLowerCase(_)
ToLowerCase(s) == IF Len(s) = 0 THEN "" ELSE LowerChar(CharAt(s, 1)) \o ToLowerCase(Drop(s, 1))

\* AI_FEATURE_ALIASES[normalized] ?? normalized
AiFeatureAlias(s) ==
  CASE s = "validador_ai" -> "validador"
    [] s = "qualitativo_ai" -> "qualitativo"
    [] s = "valuai_ai" -> "valuai"
    [] OTHER -> s

\* normalizeAiFeature without the alias table.
normalizeAiFeatureNoAlias(feature) ==
  IF ~Truthy(feature) THEN Null ELSE ToLowerCase(Trim(feature))

normalizeAiFeature(feature) ==
  IF ~Truthy(feature) THEN Null ELSE AiFeatureAlias(ToLowerCase(Trim(feature)))

getAiModuleKey(event) ==
  IF event.event_name = "analysis_run"
    THEN LET feature == normalizeAiFeature(event.feature)
         IN  IF feature = "qualitativo" THEN "qualitativo_run"
             ELSE IF feature = "valuai" THEN "valuai_run"
             ELSE IF feature = "validador" THEN "analysis_run"
             ELSE "analysis_run"
    ELSE IF event.event_name \in AI_MODULE_KEYS THEN event.event_name
    ELSE Null

isAiEvent(event) == getAiModuleKey(event) # Null

(***************************************************************************)
(* Event records: the fields of UsageEvent / TerminalEvent that the        *)
(* aggregation functions read.  event_ts is an ISO timestamp string        *)
(* 'YYYY-MM-DDThh:mm:ss.sssZ', held as its UTC calendar day and the        *)
(* milliseconds since midnight; a string that is no timestamp has the      *)
(* date InvalidDay.  success is 'true', 'false' or 'null'; latency_ms is   *)
(* properties.latency_ms and duration_ms is the TerminalEvent field, both   *)
(* NaN when the record holds no finite number there.                       *)
(***************************************************************************)
Unparseable == [date |-> InvalidDay, tod |-> 0]

Timestamp(day, tod) == [date |-> day, tod |-> tod]

BaseEvent ==
  [event_ts |-> Unparseable, event_name |-> "page_view", feature |-> Null, success |-> "null",
   user_id |-> Null, session_id |-> Null, anon_id |-> Null, route |-> Null,
   referrer |-> Null, phase |-> Null, ticker |-> Null, latency_ms |-> NaN,
   duration_ms |-> NaN]

\* new Date(ts).getTime(): epoch milliseconds, NaN for an invalid Date
GetTime(ts) == IF ts.date = InvalidDay THEN NaN ELSE ts.date * DAY_MS + ts.tod

IsNaN(t) == t = NaN

\* date.toISOString().slice(0, 10): the UTC day of an instant
toDateKey(t) == t \div DAY_MS

\* new Date(`${day}T00:00:00.000Z`).getTime(): NaN when the bound is no date
DayStart(day) == IF day = InvalidDay THEN NaN ELSE day * DAY_MS

addDays(t, days) == t + days * DAY_MS

\* Comparison of two day-key strings: 'invalid' sorts after every 'YYYY-MM-DD'.
DayKeyLess(a, b) ==
  IF a = InvalidDay THEN FALSE
  ELSE IF b = InvalidDay THEN TRUE
  ELSE a < b

(***************************************************************************)
(* JS numbers that are quotients: exact fractions in lowest terms.  null   *)
(* (no value) is the fraction with denominator 0, equal to no number.      *)
(***************************************************************************)
RECURSIVE GCD(_, _)
GCD(a, b) == IF b = 0 THEN a ELSE GCD(b, a % b)

\* n / d; 0 / 0 is NaN, which like null is the fraction 0 / 0, and n / 0 is Infinity,
\* the fraction 1 / 0.
Rat(n, d) == LET g == GCD(n, d) IN IF g = 0 THEN [num |-> 0, den |-> 0] ELSE [num |-> n \div g, den |-> d \div g]

RatInt(n) == [num |-> n, den |-> 1]

RateNull == [num |-> 0, den |-> 0]

RatAdd(a, b) ==
  LET l == (a.den * b.den) \div GCD(a.den, b.den)
  IN  Rat(a.num * (l \div a.den) + b.num * (l \div b.den), l)

RatDivInt(a, k) == Rat(a.num, a.den * k)

\* Math.round of the non-negative quotient n / d (halves round up)
RoundDiv(n, d) == (2 * n + d) \div (2 * d)

\* safeDivide with the guard divider >= 0: a division by 0 goes through.
safeDivideZeroDivider(value, divider) ==
  IF divider >= 0 THEN RatDivInt(value, divider) ELSE RatInt(0)

\* safeDivide = (value, divider) => (divider > 0 ? value / divider : 0)
safeDivide(value, divider) == IF divider > 0 THEN RatDivInt(value, divider) ELSE RatInt(0)

Min(a, b) == IF a < b THEN a ELSE b

Max(a, b) == IF a > b THEN a ELSE b

(***************************************************************************)
(* JS Map as a sequence of entries in insertion order.                     *)
(***************************************************************************)
MapIndex(map, key) ==
  IF \E i \in 1..Len(map) : map[i].k = key
    THEN CHOOSE i \in 1..Len(map) : map[i].k = key
    ELSE 0

MapHas(map, key) == MapIndex(map, key) # 0

MapGet(map, key) == map[MapIndex(map, key)].v

MapSet(map, key, val) ==
  IF MapHas(map, key)
    THEN [map EXCEPT ![MapIndex(map, key)].v = val]
    ELSE Append(map, [k |-> key, v |-> val])

\* The comparators handed to Array.prototype.sort: a sorts before b.
\*   bucketDay: (a, b) => (a.day < b.day ? -1 : 1)
\*   dayKey:    ([a], [b]) => (a < b ? -1 : 1)
\*   valueDesc: (a, b) => b.value - a.value
Before(cmp, a, b) ==
  CASE cmp = "bucketDay" -> a.day < b.day
    [] cmp = "dayKey" -> DayKeyLess(a.k, b.k)
    [] cmp = "valueDesc" -> b.value - a.value < 0

\* Array.prototype.sort is stable: insertion sort under the comparator.
RECURSIVE InsertSorted(_, _, _)
InsertSorted(sorted, x, cmp) ==
  IF sorted = <<>> THEN <<x>>
  ELSE IF Before(cmp, x, Head(sorted)) THEN <<x>> \o sorted
  ELSE <<Head(sorted)>> \o InsertSorted(Tail(sorted), x, cmp)

RECURSIVE StableSort(_, _)
StableSort(seq, cmp) ==
  IF seq = <<>> THEN <<>>
  ELSE InsertSorted(StableSort(SubSeq(seq, 1, Len(seq) - 1), cmp), seq[Len(seq)], cmp)

(***************************************************************************)
(* buildDailyBuckets (Dashboard.tsx)                                       *)
(***************************************************************************)
EmptyBucket(day) ==
  [day |-> day, events |-> 0, users |-> {}, sessions |-> {}, successCount |-> 0,
   successTotal |-> 0, latencySum |-> 0, latencyCount |-> 0, contentEvents |-> 0,
   aiEvents |-> 0, paywallEvents |-> 0, anonEvents |-> 0, errorEvents |-> 0]

ensureBucket(map, day) ==
  IF MapHas(map, day) THEN map ELSE Append(map, [k |-> day, v |-> EmptyBucket(day)])

\* AccumulateBucket with the success flag test dropped: null counts in successTotal.
AccumulateBucketNullInTotal(b, event) ==
  [b EXCEPT
    !.events = @ + 1,
    !.users = IF Truthy(event.user_id) THEN @ \cup {event.user_id} ELSE @,
    !.sessions = IF Truthy(event.session_id) THEN @ \cup {event.session_id} ELSE @,
    !.successTotal = @ + 1,
    !.successCount = IF event.success = "true" THEN @ + 1 ELSE @,
    !.errorEvents = IF event.success # "true" THEN @ + 1 ELSE @]

\* The body of events.forEach for one event whose timestamp parses.
AccumulateBucket(b, event) ==
  LET hasFlag == event.success = "true" \/ event.success = "false"
      hasLatency == ~IsNaN(event.latency_ms)
  IN  [b EXCEPT
        !.events = @ + 1,
        !.users = IF Truthy(event.user_id) THEN @ \cup {event.user_id} ELSE @,
        !.sessions = IF Truthy(event.session_id) THEN @ \cup {event.session_id} ELSE @,
        !.successTotal = IF hasFlag THEN @ + 1 ELSE @,
        !.successCount = IF hasFlag /\ event.success = "true" THEN @ + 1 ELSE @,
        !.errorEvents = IF hasFlag /\ event.success # "true" THEN @ + 1 ELSE @,
        !.anonEvents = IF ~Truthy(event.user_id) /\ Truthy(event.anon_id) THEN @ + 1 ELSE @,
        !.contentEvents = IF event.event_name \in CONTENT_EVENT_NAMES THEN @ + 1 ELSE @,
        !.aiEvents = IF isAiEvent(event) THEN @ + 1 ELSE @,
        !.paywallEvents = IF event.event_name = "paywall_block" THEN @ + 1 ELSE @,
        !.latencySum = IF hasLatency THEN @ + event.latency_ms ELSE @,
        !.latencyCount = IF hasLatency THEN @ + 1 ELSE @]

RECURSIVE BucketMap(_, _)
BucketMap(evs, n) ==
  IF n = 0 THEN <<>>
  ELSE LET map == BucketMap(evs, n - 1)
           event == evs[n]
           time == GetTime(event.event_ts)
       IN  IF IsNaN(time) THEN map
           ELSE LET day == toDateKey(time)
                    withDay == ensureBucket(map, day)
                IN  MapSet(withDay, day, AccumulateBucket(MapGet(withDay, day), event))

RECURSIVE BucketRange(_, _, _)
BucketRange(map, cursor, end) ==
  IF cursor <= end
    THEN LET day == toDateKey(cursor)
             bucket == IF MapHas(map, day) THEN MapGet(map, day) ELSE EmptyBucket(day)
         IN  <<bucket>> \o BucketRange(ensureBucket(map, day), addDays(cursor, 1), end)
    ELSE <<>>

MapValues(map) == [i \in 1..Len(map) |-> map[i].v]

\* buildDailyBuckets without the zero-fill loop: only the days seen in the data.
buildDailyBucketsNoZeroFill(evs, rng) ==
  StableSort(MapValues(BucketMap(evs, Len(evs))), "bucketDay")

\* buildDailyBuckets whose fallback for a range that does not parse leaves the buckets
\* in the order of the Map.
buildDailyBucketsUnsortedFallback(evs, rng) ==
  LET map == BucketMap(evs, Len(evs))
      start == DayStart(rng.start)
      end == DayStart(rng.end)
  IN  IF IsNaN(start) \/ IsNaN(end)
        THEN MapValues(map)
        ELSE BucketRange(map, start, end)

buildDailyBuckets(evs, rng) ==
  LET map == BucketMap(evs, Len(evs))
      start == DayStart(rng.start)
      end == DayStart(rng.end)
  IN  IF IsNaN(start) \/ IsNaN(end)
        THEN StableSort(MapValues(map), "bucketDay")
        ELSE BucketRange(map, start, end)

\* The accessors of the per-day rate series of the Dashboard.
SuccessRateOf(b) == safeDivide(RatInt(b.successCount), b.successTotal)

ErrorRateOf(b) == safeDivide(RatInt(b.errorEvents), b.successTotal)

AnonShareOf(b) == safeDivide(RatInt(b.anonEvents), b.events)

ContentShareOf(b) == safeDivide(RatInt(b.contentEvents), b.events)

AiShareOf(b) == safeDivide(RatInt(b.aiEvents), b.events)

PaywallRateOf(b) == safeDivide(RatInt(b.paywallEvents), b.events)

DailyRateSeriesNames ==
  {"dailySuccessRateSeries", "dailyErrorRateSeries", "dailyAnonShareSeries",
   "dailyContentShareSeries", "dailyAiShareSeries", "dailyPaywallRateSeries"}

\* The arrow function each series passes to buildSeries, named by the series.
Accessor(name, bucket) ==
  CASE name = "dailySuccessRateSeries" -> SuccessRateOf(bucket)
    [] name = "dailyErrorRateSeries" -> ErrorRateOf(bucket)
    [] name = "dailyAnonShareSeries" -> AnonShareOf(bucket)
    [] name = "dailyContentShareSeries" -> ContentShareOf(bucket)
    [] name = "dailyAiShareSeries" -> AiShareOf(bucket)
    [] name = "dailyPaywallRateSeries" -> PaywallRateOf(bucket)

\* buildSeries = (buckets, accessor) =>
\*   buckets.map((bucket) => ({ label: bucket.day, value: accessor(bucket) }))
buildSeries(buckets, accessor) ==
  [i \in 1..Len(buckets) |->
     [label |-> buckets[i].day, value |-> Accessor(accessor, buckets[i])]]

dailyRateSeries(name, dailyBuckets) == buildSeries(dailyBuckets, name)

(***************************************************************************)
(* buildRollingUsersSeries (Dashboard.tsx)                                 *)
(***************************************************************************)
RECURSIVE WindowUsers(_, _, _)
WindowUsers(buckets, i, index) ==
  IF i <= index THEN buckets[i].users \cup WindowUsers(buckets, i + 1, index) ELSE {}

\* buildRollingUsersSeries with the window start one bucket too early.
buildRollingUsersSeriesWideWindow(buckets, windowDays) ==
  [n \in 1..Len(buckets) |->
     LET index == n - 1
         start == Max(0, index - windowDays)
     IN  [label |-> buckets[n].day,
          value |-> Cardinality(WindowUsers(buckets, start + 1, index + 1))]]

\* Sequences are 1-based: the bucket of JS index j is buckets[j + 1].
buildRollingUsersSeries(buckets, windowDays) ==
  [n \in 1..Len(buckets) |->
     LET index == n - 1
         start == Max(0, index - windowDays + 1)
     IN  [label |-> buckets[n].day,
          value |-> Cardinality(WindowUsers(buckets, start + 1, index + 1))]]

(***************************************************************************)
(* buildDailySessionDurationSeries (Dashboard.tsx)                         *)
(***************************************************************************)
RECURSIVE SessionMap(_, _)
SessionMap(evs, n) ==
  IF n = 0 THEN <<>>
  ELSE LET sessions == SessionMap(evs, n - 1)
           event == evs[n]
           time == GetTime(event.event_ts)
       IN  IF ~Truthy(event.session_id) THEN sessions
           ELSE IF IsNaN(time) THEN sessions
           ELSE IF ~MapHas(sessions, event.session_id)
             THEN MapSet(sessions, event.session_id, [start |-> time, end |-> time])
           ELSE LET existing == MapGet(sessions, event.session_id)
                IN  MapSet(sessions, event.session_id,
                           [start |-> Min(existing.start, time), end |-> Max(existing.end, time)])

\* SessionDailyMap with each session put on the day of its latest timestamp.
RECURSIVE SessionDailyMapByEnd(_, _)
SessionDailyMapByEnd(sessions, n) ==
  IF n = 0 THEN <<>>
  ELSE LET dailyMap == SessionDailyMapByEnd(sessions, n - 1)
           session == sessions[n].v
           day == toDateKey(session.end)
           duration == Rat(Max(0, session.end - session.start), 1000)
           bucket == IF MapHas(dailyMap, day) THEN MapGet(dailyMap, day)
                     ELSE [total |-> RatInt(0), count |-> 0]
       IN  MapSet(dailyMap, day,
                  [total |-> RatAdd(bucket.total, duration), count |-> bucket.count + 1])

RECURSIVE SessionDailyMap(_, _)
SessionDailyMap(sessions, n) ==
  IF n = 0 THEN <<>>
  ELSE LET dailyMap == SessionDailyMap(sessions, n - 1)
           session == sessions[n].v
           day == toDateKey(session.start)
           duration == Rat(Max(0, session.end - session.start), 1000)
           bucket == IF MapHas(dailyMap, day) THEN MapGet(dailyMap, day)
                     ELSE [total |-> RatInt(0), count |-> 0]
       IN  MapSet(dailyMap, day,
                  [total |-> RatAdd(bucket.total, duration), count |-> bucket.count + 1])

RECURSIVE SessionSeries(_, _, _)
SessionSeries(dailyMap, cursor, end) ==
  IF cursor <= end
    THEN LET day == toDateKey(cursor)
             value == IF MapHas(dailyMap, day)
                        THEN safeDivide(MapGet(dailyMap, day).total, MapGet(dailyMap, day).count)
                        ELSE RatInt(0)
         IN  <<[label |-> day, value |-> value]>> \o SessionSeries(dailyMap, addDays(cursor, 1), end)
    ELSE <<>>

buildDailySessionDurationSeries(evs, rng) ==
  LET sessions == SessionMap(evs, Len(evs))
      dailyMap == SessionDailyMap(sessions, Len(sessions))
      start == DayStart(rng.start)
      end == DayStart(rng.end)
  IN  IF IsNaN(start) \/ IsNaN(end) THEN <<>> ELSE SessionSeries(dailyMap, start, end)

(***************************************************************************)
(* computeSessionStats (metrics.ts)                                        *)
(***************************************************************************)
\* The sessions Map after the forEach over the first n events.
RECURSIVE StatsSessions(_, _)
StatsSessions(evs, n) ==
  IF n = 0 THEN <<>>
  ELSE LET sessions == StatsSessions(evs, n - 1)
           event == evs[n]
           time == GetTime(event.event_ts)
       IN  IF ~Truthy(event.session_id) THEN sessions
           ELSE IF IsNaN(time) THEN sessions
           ELSE IF ~MapHas(sessions, event.session_id)
             THEN MapSet(sessions, event.session_id,
                         [start |-> time, end |-> time,
                          userId |-> IF Truthy(event.user_id) THEN event.user_id ELSE Null])
           ELSE LET existing == MapGet(sessions, event.session_id)
                IN  MapSet(sessions, event.session_id,
                           [existing EXCEPT !.start = Min(existing.start, time),
                                            !.end = Max(existing.end, time)])

\* durations.reduce((sum, v) => sum + v, 0)
RECURSIVE SumRat(_)
SumRat(seq) == IF seq = <<>> THEN RatInt(0) ELSE RatAdd(SumRat(SubSeq(seq, 1, Len(seq) - 1)), seq[Len(seq)])

IsPositiveRat(v) == v.num > 0

\* computeSessionStats with the sessions of duration 0 left out of the average.
computeSessionStatsSkipZero(evs) ==
  LET sessions == StatsSessions(evs, Len(evs))
      durations == SelectSeq([i \in 1..Len(sessions) |->
                      Rat(Max(0, sessions[i].v.end - sessions[i].v.start), 1000)], IsPositiveRat)
      totalDuration == SumRat(durations)
  IN  [sessionCount |-> Len(sessions),
       avgDurationSeconds |-> IF Len(durations) > 0 THEN RatDivInt(totalDuration, Len(durations))
                              ELSE RatInt(0)]

computeSessionStats(evs) ==
  LET sessions == StatsSessions(evs, Len(evs))
      durations == [i \in 1..Len(sessions) |->
                      Rat(Max(0, sessions[i].v.end - sessions[i].v.start), 1000)]
      totalDuration == SumRat(durations)
  IN  [sessionCount |-> Len(sessions),
       avgDurationSeconds |-> IF Len(durations) > 0 THEN RatDivInt(totalDuration, Len(durations))
                              ELSE RatInt(0)]

(***************************************************************************)
(* groupDaily, groupTerminalDaily (metrics.ts)                             *)
(***************************************************************************)
\* toDayKey of metrics.ts: 'invalid' for a timestamp that does not parse
toDayKey(ts) == IF IsNaN(GetTime(ts)) THEN InvalidDay ELSE toDateKey(GetTime(ts))

RECURSIVE GroupDailyMap(_, _)
GroupDailyMap(evs, n) ==
  IF n = 0 THEN <<>>
  ELSE LET map == GroupDailyMap(evs, n - 1)
           event == evs[n]
           day == toDayKey(event.event_ts)
           entry == IF MapHas(map, day) THEN MapGet(map, day)
                    ELSE [users |-> {}, sessions |-> {}, events |-> 0]
       IN  MapSet(map, day,
             [users |-> IF Truthy(event.user_id) THEN entry.users \cup {event.user_id} ELSE entry.users,
              sessions |-> IF Truthy(event.session_id) THEN entry.sessions \cup {event.session_id}
                           ELSE entry.sessions,
              events |-> entry.events + 1])

groupDaily(evs) ==
  LET sorted == StableSort(GroupDailyMap(evs, Len(evs)), "dayKey")
  IN  [i \in 1..Len(sorted) |->
         [day |-> sorted[i].k, users |-> Cardinality(sorted[i].v.users),
          sessions |-> Cardinality(sorted[i].v.sessions), events |-> sorted[i].v.events]]

RECURSIVE GroupTerminalDailyMap(_, _)
GroupTerminalDailyMap(evs, n) ==
  IF n = 0 THEN <<>>
  ELSE LET map == GroupTerminalDailyMap(evs, n - 1)
           event == evs[n]
           day == toDayKey(event.event_ts)
           entry == IF MapHas(map, day) THEN MapGet(map, day)
                    ELSE [messages |-> 0, users |-> {}, sessions |-> {}]
       IN  MapSet(map, day,
             [messages |-> IF event.event_name = "terminal_message_send"
                             THEN entry.messages + 1 ELSE entry.messages,
              users |-> IF Truthy(event.user_id) THEN entry.users \cup {event.user_id} ELSE entry.users,
              sessions |-> IF Truthy(event.session_id) THEN entry.sessions \cup {event.session_id}
                           ELSE entry.sessions])

groupTerminalDaily(evs) ==
  LET sorted == StableSort(GroupTerminalDailyMap(evs, Len(evs)), "dayKey")
  IN  [i \in 1..Len(sorted) |->
         [day |-> sorted[i].k, messages |-> sorted[i].v.messages,
          users |-> Cardinality(sorted[i].v.users), sessions |-> Cardinality(sorted[i].v.sessions)]]

(***************************************************************************)
(* Top-N builders (metrics.ts, Dashboard.tsx)                              *)
(***************************************************************************)
\* typeof raw === 'string' && raw.trim()
HasValue(raw) == raw # Null /\ Trim(raw) # ""

Slice(seq, limit) == SubSeq(seq, 1, Min(limit, Len(seq)))

\* distinctCount with one count per record that has a value, repeated or not.
distinctCountPerRecord(evs, key) ==
  Cardinality({i \in 1..Len(evs) : HasValue(evs[i][key])})

\* distinctCount: the size of the Set of the values that are non-blank strings.
distinctCount(evs, key) ==
  Cardinality({evs[i][key] : i \in {j \in 1..Len(evs) : HasValue(evs[j][key])}})

\* The Map of buildBarList after the forEach over the first n events.
RECURSIVE BarCounts(_, _, _, _)
BarCounts(evs, key, labelFallback, n) ==
  IF n = 0 THEN <<>>
  ELSE LET counts == BarCounts(evs, key, labelFallback, n - 1)
           raw == evs[n][key]
           hasValue == HasValue(raw)
           label == IF hasValue THEN raw ELSE labelFallback
           valueKey == IF hasValue THEN raw ELSE EMPTY_FILTER_VALUE
           entry == IF MapHas(counts, valueKey) THEN MapGet(counts, valueKey)
                    ELSE [value |-> 0, label |-> label, isFallback |-> ~hasValue]
       IN  MapSet(counts, valueKey, [entry EXCEPT !.value = @ + 1])

\* Array.from(counts.entries()).map(...).sort(...): every bucket, before the slice.
BarEntries(evs, key, labelFallback) ==
  LET counts == BarCounts(evs, key, labelFallback, Len(evs))
  IN  StableSort([i \in 1..Len(counts) |->
                    [key |-> counts[i].k, label |-> counts[i].v.label,
                     value |-> counts[i].v.value, isFallback |-> counts[i].v.isFallback]],
                 "valueDesc")

Reverse(seq) == [i \in 1..Len(seq) |-> seq[Len(seq) + 1 - i]]

\* buildBarList with buckets of equal count in the order last encountered first.
buildBarListTiesReversed(evs, key, limit, labelFallback) ==
  Slice(StableSort(Reverse(BarEntries(evs, key, labelFallback)), "valueDesc"), limit)

buildBarList(evs, key, limit, labelFallback) == Slice(BarEntries(evs, key, labelFallback), limit)

\* buildTerminalBarList is the same code over TerminalEvent.
buildTerminalBarList(evs, key, limit, labelFallback) ==
  Slice(BarEntries(evs, key, labelFallback), limit)

RECURSIVE DistinctUserMap(_, _, _, _)
DistinctUserMap(evs, key, labelFallback, n) ==
  IF n = 0 THEN <<>>
  ELSE LET map == DistinctUserMap(evs, key, labelFallback, n - 1)
           raw == evs[n][key]
           hasValue == HasValue(raw)
           label == IF hasValue THEN raw ELSE labelFallback
           valueKey == IF hasValue THEN raw ELSE EMPTY_FILTER_VALUE
           withKey == IF MapHas(map, valueKey) THEN map
                      ELSE MapSet(map, valueKey,
                                  [label |-> label, users |-> {}, isFallback |-> ~hasValue])
           entry == MapGet(withKey, valueKey)
       IN  IF Truthy(evs[n].user_id)
             THEN MapSet(withKey, valueKey, [entry EXCEPT !.users = @ \cup {evs[n].user_id}])
             ELSE withKey

DistinctUserEntries(evs, key, labelFallback) ==
  LET map == DistinctUserMap(evs, key, labelFallback, Len(evs))
  IN  StableSort([i \in 1..Len(map) |->
                    [key |-> map[i].k, label |-> map[i].v.label,
                     value |-> Cardinality(map[i].v.users), isFallback |-> map[i].v.isFallback]],
                 "valueDesc")

buildDistinctUserBarList(evs, key, limit, labelFallback) ==
  Slice(DistinctUserEntries(evs, key, labelFallback), limit)

\* The result of parseUrlParts when the value is no URL (null in the code).
NoUrlParts == [ok |-> FALSE, host |-> "", path |-> ""]

\* The part of s before its first character that is in chars, s when there is none.
UpToAny(s, chars) ==
  LET cut == IndexOfAny(s, chars)
  IN  IF cut = 0 THEN s ELSE SubSeq(s, 1, cut - 1)

\* The part of s from its first character that is in chars, '' when there is none.
FromAny(s, chars) ==
  LET cut == IndexOfAny(s, chars)
  IN  IF cut = 0 THEN "" ELSE Drop(s, cut - 1)

\* new URL(candidate) for a candidate 'http(s)://...' without userinfo, dot segments
\* or characters that need escaping: the hostname is the authority up to the port,
\* in lower case, the pathname runs up to the query or fragment and is '/' when
\* empty; a candidate with an empty host or a blank in the host throws.
parseUrl(candidate) ==
  LET Parts(hostname, pathname) ==
        IF hostname = "" \/ IndexOfAny(hostname, WhiteSpace) # 0 THEN NoUrlParts
        ELSE [ok |-> TRUE, host |-> hostname,
              path |-> IF pathname = "" THEN "/" ELSE pathname]
      Split(rest) ==
        Parts(ToLowerCase(UpToAny(UpToAny(rest, {"/", "?", "#"}), {":"})),
              UpToAny(FromAny(rest, {"/", "?", "#"}), {"?", "#"}))
  IN  Split(Drop(candidate, IndexOfAny(candidate, {":"}) + 2))

\* /^https?:\/\//i.test(value)
HasScheme(value) ==
  StartsWith(ToLowerCase(value), "http://") \/ StartsWith(ToLowerCase(value), "https://")

\* value.replace(/^www\./i, '')
StripWww(value) == IF StartsWith(ToLowerCase(value), "www.") THEN Drop(value, 4) ELSE value

parseUrlParts(value) ==
  LET Result(trimmed, url) ==
        IF trimmed = "" \/ IndexOfAny(trimmed, {".", "/"}) = 0 THEN NoUrlParts
        ELSE IF ~url.ok THEN NoUrlParts
        ELSE [ok |-> TRUE, host |-> StripWww(url.host), path |-> url.path]
      Parse(trimmed) ==
        Result(trimmed, parseUrl(IF HasScheme(trimmed) THEN trimmed ELSE "https://" \o trimmed))
  IN  Parse(Trim(value))

\* path.split('/').filter(Boolean): the non-empty segments of a path
RECURSIVE PathSegments(_)
PathSegments(path) ==
  LET slash == IndexOfAny(path, {"/"})
  IN  IF path = "" THEN <<>>
      ELSE IF slash = 0 THEN <<path>>
      ELSE IF slash = 1 THEN PathSegments(Drop(path, 1))
      ELSE <<SubSeq(path, 1, slash - 1)>> \o PathSegments(Drop(path, slash))

MAX_URL_LABEL_LENGTH == 42

shortenLabel(value) ==
  IF Len(value) <= MAX_URL_LABEL_LENGTH THEN value
  ELSE SubSeq(value, 1, Max(0, MAX_URL_LABEL_LENGTH - 3)) \o "..."

isLovableValue(value) ==
  LET Test(lower, parts) ==
        IF parts.ok /\ parts.host # "" THEN Includes(parts.host, "lovable")
        ELSE Includes(lower, "lovable")
  IN  Test(ToLowerCase(value), parseUrlParts(value))

formatUrlLabel(value) ==
  LET WithSegments(host, segments) ==
        IF Len(segments) = 0 THEN host
        ELSE IF Len(segments) = 1 THEN host \o "/" \o segments[1]
        ELSE host \o "/" \o segments[1] \o "/..."
      Plain(trimmed) ==
        UpToAny(StripWww(IF HasScheme(trimmed)
                           THEN Drop(trimmed, IndexOfAny(trimmed, {":"}) + 2)
                           ELSE trimmed),
                {"?", "#"})
      Label(parts) ==
        IF parts.ok THEN WithSegments(parts.host, PathSegments(parts.path))
        ELSE Plain(Trim(value))
  IN  shortenLabel(Label(parseUrlParts(value)))

RECURSIVE UrlCounts(_, _, _, _)
UrlCounts(evs, key, emptyLabel, n) ==
  IF n = 0 THEN <<>>
  ELSE LET raw == evs[n][key]
           Fresh(trimmed) ==
             IF trimmed = ""
               THEN [k |-> EMPTY_FILTER_VALUE,
                     v |-> [value |-> 1, label |-> emptyLabel, title |-> emptyLabel,
                            isFallback |-> TRUE]]
             ELSE IF isLovableValue(trimmed)
               THEN [k |-> LOVABLE_FILTER_VALUE,
                     v |-> [value |-> 1, label |-> "Lovable", title |-> "Lovable",
                            isFallback |-> FALSE]]
             ELSE [k |-> trimmed,
                   v |-> [value |-> 1, label |-> formatUrlLabel(trimmed),
                          title |-> trimmed, isFallback |-> FALSE]]
           Add(counts, fresh) ==
             IF MapHas(counts, fresh.k)
               THEN MapSet(counts, fresh.k, [MapGet(counts, fresh.k) EXCEPT !.value = @ + 1])
               ELSE Append(counts, fresh)
       IN  Add(UrlCounts(evs, key, emptyLabel, n - 1),
               Fresh(IF raw # Null THEN Trim(raw) ELSE ""))

UrlEntries(evs, key, emptyLabel) ==
  LET counts == UrlCounts(evs, key, emptyLabel, Len(evs))
  IN  StableSort([i \in 1..Len(counts) |->
                    [key |-> counts[i].k, label |-> counts[i].v.label,
                     title |-> counts[i].v.title, value |-> counts[i].v.value,
                     isFallback |-> counts[i].v.isFallback]],
                 "valueDesc")

buildUrlBarList(evs, key, limit, emptyLabel) == Slice(UrlEntries(evs, key, emptyLabel), limit)

(***************************************************************************)
(* buildAiProductSeries and the top-N AI module breakdown (Dashboard.tsx)  *)
(***************************************************************************)
\* A Record<string, number> read with `?? 0`: a function over the module keys.
NoCounts == [m \in AI_MODULE_KEYS |-> 0]

\* dailyMap and totals after the forEach over the first n events.
RECURSIVE AiProductMaps(_, _)
AiProductMaps(evs, n) ==
  IF n = 0 THEN [dailyMap |-> <<>>, totals |-> <<>>]
  ELSE LET maps == AiProductMaps(evs, n - 1)
           event == evs[n]
           moduleKey == getAiModuleKey(event)
           time == GetTime(event.event_ts)
       IN  IF moduleKey = Null THEN maps
           ELSE IF IsNaN(time) THEN maps
           ELSE LET day == toDateKey(time)
                    dayCounts == IF MapHas(maps.dailyMap, day) THEN MapGet(maps.dailyMap, day)
                                 ELSE NoCounts
                    total == IF MapHas(maps.totals, moduleKey) THEN MapGet(maps.totals, moduleKey)
                             ELSE 0
                IN  [dailyMap |-> MapSet(maps.dailyMap, day,
                                         [dayCounts EXCEPT ![moduleKey] = @ + 1]),
                     totals |-> MapSet(maps.totals, moduleKey, total + 1)]

RECURSIVE AiModuleSeries(_, _, _, _)
AiModuleSeries(dailyMap, key, cursor, end) ==
  IF cursor <= end
    THEN LET day == toDateKey(cursor)
             value == IF MapHas(dailyMap, day) THEN MapGet(dailyMap, day)[key] ELSE 0
         IN  <<[label |-> day, value |-> value]>>
               \o AiModuleSeries(dailyMap, key, addDays(cursor, 1), end)
    ELSE <<>>

buildAiProductSeries(evs, rng) ==
  LET maps == AiProductMaps(evs, Len(evs))
      start == DayStart(rng.start)
      end == DayStart(rng.end)
  IN  [i \in 1..Len(AI_MODULE_DEFS) |->
         LET item == AI_MODULE_DEFS[i]
         IN  [key |-> item.key, label |-> item.label,
              total |-> IF MapHas(maps.totals, item.key) THEN MapGet(maps.totals, item.key) ELSE 0,
              series |-> IF IsNaN(start) \/ IsNaN(end) THEN <<>>
                         ELSE AiModuleSeries(maps.dailyMap, item.key, start, end)]]

\* events.filter(isAiEvent).map(event => ({...event,
\*   feature: normalizeAiFeature(event.feature) ?? event.feature}))
aiEventsNormalized(evs) ==
  LET aiEvents == SelectSeq(evs, isAiEvent)
  IN  [i \in 1..Len(aiEvents) |->
         [aiEvents[i] EXCEPT !.feature =
            IF normalizeAiFeature(@) # Null THEN normalizeAiFeature(@) ELSE @]]

\* aiTopModules = buildBarList(aiEventsNormalized, 'feature', 5)
aiTopModules(evs) == buildBarList(aiEventsNormalized(evs), "feature", 5, "Not set")

(***************************************************************************)
(* Rates (metrics.ts)                                                      *)
(***************************************************************************)
HasSuccessFlag(event) == event.success = "true" \/ event.success = "false"

IsSuccess(event) == event.success = "true"

\* computeSuccessRate with 0 in place of null when no record has a flag.
computeSuccessRateZeroForNoData(evs) ==
  LET withFlag == SelectSeq(evs, HasSuccessFlag)
      successCount == Len(SelectSeq(withFlag, IsSuccess))
  IN  IF Len(withFlag) = 0
        THEN [successRate |-> RatInt(0), errorRate |-> RatInt(0)]
        ELSE [successRate |-> Rat(successCount, Len(withFlag)),
              errorRate |-> Rat(Len(withFlag) - successCount, Len(withFlag))]

computeSuccessRate(evs) ==
  LET withFlag == SelectSeq(evs, HasSuccessFlag)
      successCount == Len(SelectSeq(withFlag, IsSuccess))
  IN  IF Len(withFlag) = 0
        THEN [successRate |-> RateNull, errorRate |-> RateNull]
        ELSE [successRate |-> Rat(successCount, Len(withFlag)),
              errorRate |-> Rat(Len(withFlag) - successCount, Len(withFlag))]

IsMessageSend(event) == event.event_name = "terminal_message_send"

IsAnswerDone(event) == event.event_name = "terminal_agent_answer_done"

HasDuration(event) == ~IsNaN(event.duration_ms)

RECURSIVE SumDuration(_)
SumDuration(evs) == IF evs = <<>> THEN 0 ELSE Head(evs).duration_ms + SumDuration(Tail(evs))

computeTerminalStats(evs) ==
  LET durations == SelectSeq(SelectSeq(evs, IsAnswerDone), HasDuration)
      eventsWithSuccess == SelectSeq(evs, HasSuccessFlag)
      successCount == Len(SelectSeq(eventsWithSuccess, IsSuccess))
  IN  [totalMessages |-> Len(SelectSeq(evs, IsMessageSend)),
       uniqueUsers |-> Cardinality({evs[i].user_id : i \in {j \in 1..Len(evs) : Truthy(evs[j].user_id)}}),
       uniqueTickers |-> Cardinality({evs[i].ticker : i \in {j \in 1..Len(evs) : Truthy(evs[j].ticker)}}),
       uniqueSessions |->
         Cardinality({evs[i].session_id : i \in {j \in 1..Len(evs) : Truthy(evs[j].session_id)}}),
       avgDurationMs |-> IF Len(durations) > 0 THEN Rat(SumDuration(durations), Len(durations))
                         ELSE RatInt(0),
       successRate |-> IF Len(eventsWithSuccess) > 0 THEN Rat(successCount, Len(eventsWithSuccess))
                       ELSE RatInt(1)]

RECURSIVE PhaseErrors(_, _)
PhaseErrors(evs, n) ==
  IF n = 0 THEN <<>>
  ELSE LET phaseErrors == PhaseErrors(evs, n - 1)
           event == evs[n]
           existing == IF MapHas(phaseErrors, event.phase) THEN MapGet(phaseErrors, event.phase)
                       ELSE [errors |-> 0, total |-> 0]
       IN  IF ~Truthy(event.phase) THEN phaseErrors
           ELSE MapSet(phaseErrors, event.phase,
                       [errors |-> IF event.success = "false" THEN existing.errors + 1
                                   ELSE existing.errors,
                        total |-> existing.total + 1])

\* title is the template `${errors}/${total} errors`, held as its two numbers.
computeErrorRateByPhase(evs) ==
  LET phaseErrors == PhaseErrors(evs, Len(evs))
  IN  StableSort([i \in 1..Len(phaseErrors) |->
                    [label |-> phaseErrors[i].k,
                     value |-> IF phaseErrors[i].v.total > 0
                                 THEN RoundDiv(phaseErrors[i].v.errors * 100, phaseErrors[i].v.total)
                                 ELSE 0,
                     title |-> [errors |-> phaseErrors[i].v.errors, total |-> phaseErrors[i].v.total]]],
                 "valueDesc")

(***************************************************************************)
(* Inputs: bounded event slices and ranges.                                *)
(***************************************************************************)
Days == 0..MaxDay

RangeBounds == Days \cup {InvalidDay}

Ranges == [start : RangeBounds, end : RangeBounds]

SeqsUpTo(S, n) == UNION {[1..m -> S] : m \in 0..n}

NoCall == [fn |-> "none", arg |-> 0, result |-> <<>>]

ValidRange(rng) == rng.start # InvalidDay /\ rng.end # InvalidDay /\ rng.start <= rng.end

\* The event indices whose timestamp parses and falls on the UTC day.
OnDay(evs, day) == {j \in 1..Len(evs) : evs[j].event_ts.date # InvalidDay /\ evs[j].event_ts.date = day}

(***************************************************************************)
(* SpecBuckets: buildDailyBuckets over every slice of up to MaxLen events  *)
(* and every range over the days 0..MaxDay, bounds that do not parse       *)
(* included.                                                               *)
(***************************************************************************)
\* The first and the last millisecond of day 0, the first millisecond of day 1,
\* and a string that does not parse.
BucketTimestamps ==
  {Unparseable, Timestamp(0, 0), Timestamp(0, DAY_MS - 1), Timestamp(1, 0)}

BucketEvents ==
  {[BaseEvent EXCEPT !.event_ts = ts, !.success = p.success, !.user_id = p.user_id,
                     !.session_id = p.session_id, !.anon_id = p.anon_id,
                     !.event_name = p.event_name, !.latency_ms = p.latency_ms] :
     ts \in BucketTimestamps,
     p \in {[success |-> "true", user_id |-> "u1", session_id |-> "s1", anon_id |-> Null,
             event_name |-> "analysis_run", latency_ms |-> 120],
            [success |-> "false", user_id |-> "u2", session_id |-> "s2", anon_id |-> Null,
             event_name |-> "report_view", latency_ms |-> NaN],
            [success |-> "null", user_id |-> Null, session_id |-> Null, anon_id |-> "a1",
             event_name |-> "paywall_block", latency_ms |-> NaN]}}

InitBuckets ==
  /\ events \in SeqsUpTo(BucketEvents, MaxLen)
  /\ range \in Ranges
  /\ call = NoCall
  /\ HookIdle

CallBuildDailyBuckets ==
  /\ call' = [fn |-> "buildDailyBuckets", arg |-> 0, result |-> buildDailyBuckets(events, range)]
  /\ UNCHANGED <<events, range, hookVars>>

NextBuckets == CallBuildDailyBuckets

SpecBuckets == InitBuckets /\ [][NextBuckets]_vars

\* C1: for a valid range (start <= end) buildDailyBuckets returns exactly
\* end - start + 1 buckets, the i-th one for day start + i - 1, and the bucket of a
\* day on which no record falls has every counter 0 and empty user and session sets.
C1_ZeroFill ==
  (call.fn = "buildDailyBuckets" /\ ValidRange(range)) =>
    /\ Len(call.result) = range.end - range.start + 1
    /\ \A i \in 1..Len(call.result) :
         /\ call.result[i].day = range.start + i - 1
         /\ OnDay(events, call.result[i].day) = {} =>
              call.result[i] = EmptyBucket(range.start + i - 1)

\* A range of two or more days with a day that has records and a day that has none.
C1_Witness ==
  /\ call.fn = "buildDailyBuckets"
  /\ ValidRange(range)
  /\ range.end > range.start
  /\ \E d \in range.start..range.end : OnDay(events, d) = {}
  /\ \E d \in range.start..range.end : OnDay(events, d) # {}
  /\ \E j \in 1..Len(events) :
       events[j].event_ts.date # InvalidDay /\ events[j].event_ts.date < range.start

\* C2: every bucket has events = the number of records whose timestamp parses and
\* whose UTC day is the bucket's day, successTotal = the number of those with a
\* boolean success, successCount = the number of those with success = true.
C2_BucketCounts ==
  call.fn = "buildDailyBuckets" =>
    \A i \in 1..Len(call.result) :
      LET on == OnDay(events, call.result[i].day)
      IN  /\ call.result[i].events = Cardinality(on)
          /\ call.result[i].successTotal =
               Cardinality({j \in on : events[j].success \in {"true", "false"}})
          /\ call.result[i].successCount = Cardinality({j \in on : events[j].success = "true"})

\* Three records true / false / null on one day: events = 3, successCount = 1,
\* successTotal = 2.
C2_Witness ==
  /\ call.fn = "buildDailyBuckets"
  /\ ValidRange(range)
  /\ \E i \in 1..Len(call.result) :
       /\ {events[j].success : j \in OnDay(events, call.result[i].day)} = {"true", "false", "null"}
       /\ call.result[i].events = 3
       /\ call.result[i].successCount = 1
       /\ call.result[i].successTotal = 2

\* C18: when a bound of the range does not parse, buildDailyBuckets returns one
\* bucket for every day on which a record with a parseable timestamp falls and no
\* other bucket, in strictly ascending order of the day, each with the records of
\* its day.
C18_InvalidRangeFallback ==
  (call.fn = "buildDailyBuckets" /\ (range.start = InvalidDay \/ range.end = InvalidDay)) =>
    LET days == {events[j].event_ts.date :
                   j \in {i \in 1..Len(events) : events[i].event_ts.date # InvalidDay}}
    IN  /\ Len(call.result) = Cardinality(days)
        /\ {call.result[i].day : i \in 1..Len(call.result)} = days
        /\ \A i, j \in 1..Len(call.result) : i < j => call.result[i].day < call.result[j].day
        /\ \A i \in 1..Len(call.result) :
             /\ call.result[i].events = Cardinality(OnDay(events, call.result[i].day))
             /\ call.result[i].events > 0

\* An empty start with records of day 1, then of day 0, then one that does not
\* parse: two buckets, day 0 first.
C18_Witness ==
  /\ call.fn = "buildDailyBuckets"
  /\ range.start = InvalidDay
  /\ range.end # InvalidDay
  /\ Len(events) = 3
  /\ events[1].event_ts.date = 1
  /\ events[2].event_ts.date = 0
  /\ events[3].event_ts = Unparseable
  /\ Len(call.result) = 2
  /\ call.result[1].day = 0 /\ call.result[2].day = 1

(***************************************************************************)
(* SpecRolling: buildRollingUsersSeries over the buckets of 1..MaxBuckets  *)
(* consecutive days and every window of 1..MaxWindow days.  On each day    *)
(* nobody, a user seen on that day only, a user seen on other days too, or *)
(* both are active.                                                        *)
(***************************************************************************)
DayUsers == <<"d0", "d1", "d2", "d3", "d4", "d5", "d6", "d7">>

UserEvent(day, user) == [BaseEvent EXCEPT !.event_ts = Timestamp(day, 0), !.user_id = user]

DayActivity(day, who) ==
  CASE who = "nobody" -> <<>>
    [] who = "own" -> <<UserEvent(day, DayUsers[day + 1])>>
    [] who = "shared" -> <<UserEvent(day, "u1")>>
    [] who = "both" -> <<UserEvent(day, "u1"), UserEvent(day, DayUsers[day + 1])>>

RECURSIVE ActivityEvents(_, _)
ActivityEvents(activity, n) ==
  IF n = 0 THEN <<>> ELSE ActivityEvents(activity, n - 1) \o DayActivity(n - 1, activity[n])

InitRolling ==
  /\ \E n \in 1..MaxBuckets :
       \E activity \in [1..n -> {"nobody", "own", "shared", "both"}] :
         /\ events = ActivityEvents(activity, n)
         /\ range = [start |-> 0, end |-> n - 1]
  /\ call = NoCall
  /\ HookIdle

\* Dashboard: buildRollingUsersSeries(dailyBuckets, windowDays)
CallBuildRollingUsersSeries ==
  /\ \E windowDays \in 1..MaxWindow :
       call' = [fn |-> "buildRollingUsersSeries", arg |-> windowDays,
                result |-> buildRollingUsersSeries(buildDailyBuckets(events, range), windowDays)]
  /\ UNCHANGED <<events, range, hookVars>>

NextRolling == CallBuildRollingUsersSeries

SpecRolling == InitRolling /\ [][NextRolling]_vars

\* The users of the events whose timestamp falls on one of the days lo..hi.
UsersOnDays(evs, lo, hi) ==
  {evs[j].user_id : j \in {i \in 1..Len(evs) :
      Truthy(evs[i].user_id) /\ evs[i].event_ts.date # InvalidDay
        /\ evs[i].event_ts.date >= lo /\ evs[i].event_ts.date <= hi}}

\* C9: the rolling series has one entry per bucket, in bucket order, and the entry
\* of JS index i counts the union of the user sets of the buckets
\* max(0, i - windowDays + 1) .. i, the window being cut at the start of the list.
C9_RollingWindow ==
  call.fn = "buildRollingUsersSeries" =>
    /\ Len(call.result) = range.end - range.start + 1
    /\ \A n \in 1..Len(call.result) :
         /\ call.result[n].label = range.start + n - 1
         /\ call.result[n].value =
              Cardinality(UsersOnDays(events,
                                      range.start + Max(0, (n - 1) - call.arg + 1),
                                      range.start + n - 1))

\* Five buckets with one new user per day and a 7-day window: 1 at index 0.
C9_Witness ==
  /\ call.fn = "buildRollingUsersSeries"
  /\ call.arg = 7
  /\ Len(call.result) = 5
  /\ \A d \in 0..4 : UsersOnDays(events, d, d) = {DayUsers[d + 1]}
  /\ call.result[1].value = 1
  /\ call.result[5].value = 5

(***************************************************************************)
(* SpecSessions: buildDailySessionDurationSeries over every slice of up to *)
(* MaxLen events of two sessions (or none), in any order, and every range. *)
(***************************************************************************)
SessionTimestamps ==
  {Unparseable, Timestamp(0, 1500), Timestamp(0, DAY_MS - 1), Timestamp(1, 0)}

SessionEvents ==
  {[BaseEvent EXCEPT !.event_ts = ts, !.session_id = sid] :
     ts \in SessionTimestamps, sid \in {Null, "s1", "s2"}}

InitSessions ==
  /\ events \in SeqsUpTo(SessionEvents, MaxLen)
  /\ range \in Ranges
  /\ call = NoCall
  /\ HookIdle

CallBuildDailySessionDurationSeries ==
  /\ call' = [fn |-> "buildDailySessionDurationSeries", arg |-> 0,
              result |-> buildDailySessionDurationSeries(events, range)]
  /\ UNCHANGED <<events, range, hookVars>>

CallComputeSessionStats ==
  /\ call' = [fn |-> "computeSessionStats", arg |-> 0, result |-> computeSessionStats(events)]
  /\ UNCHANGED <<events, range, hookVars>>

NextSessions == CallBuildDailySessionDurationSeries \/ CallComputeSessionStats

SpecSessions == InitSessions /\ [][NextSessions]_vars

\* The instants of the records of a session whose timestamp parses.
SessionTimes(evs, sid) ==
  {evs[j].event_ts.date * DAY_MS + evs[j].event_ts.tod :
     j \in {i \in 1..Len(evs) : evs[i].session_id = sid /\ evs[i].event_ts.date # InvalidDay}}

SessionIds(evs) ==
  {evs[j].session_id : j \in {i \in 1..Len(evs) :
      Truthy(evs[i].session_id) /\ evs[i].event_ts.date # InvalidDay}}

Earliest(times) == CHOOSE t \in times : \A u \in times : t <= u

Latest(times) == CHOOSE t \in times : \A u \in times : t >= u

\* The sessions whose earliest record falls on the UTC day.
SessionsStartingOn(evs, day) ==
  {sid \in SessionIds(evs) :
     Earliest(SessionTimes(evs, sid)) >= day * DAY_MS
       /\ Earliest(SessionTimes(evs, sid)) < (day + 1) * DAY_MS}

RECURSIVE TotalSpanMs(_, _)
TotalSpanMs(evs, sids) ==
  IF sids = {} THEN 0
  ELSE LET sid == CHOOSE x \in sids : TRUE
       IN  Latest(SessionTimes(evs, sid)) - Earliest(SessionTimes(evs, sid))
             + TotalSpanMs(evs, sids \ {sid})

\* C10: for a valid range the series has one entry per day of the range; the entry
\* of a day is the sum of (latest - earliest) in seconds over the sessions whose
\* earliest record falls on that day, divided by their number, and 0 when no
\* session starts that day.
C10_SessionDurationByStartDay ==
  (call.fn = "buildDailySessionDurationSeries" /\ ValidRange(range)) =>
    /\ Len(call.result) = range.end - range.start + 1
    /\ \A n \in 1..Len(call.result) :
         LET day == range.start + n - 1
             starting == SessionsStartingOn(events, day)
         IN  /\ call.result[n].label = day
             /\ call.result[n].value =
                  IF starting = {} THEN RatInt(0)
                  ELSE Rat(TotalSpanMs(events, starting), 1000 * Cardinality(starting))

\* A session with records on day 0 and on day 1, seen latest record first: its whole
\* duration is reported on day 0 and day 1 reports 0.
C10_Witness ==
  /\ call.fn = "buildDailySessionDurationSeries"
  /\ range = [start |-> 0, end |-> 1]
  /\ Len(events) = 2
  /\ events[1].session_id = "s1" /\ events[1].event_ts = Timestamp(1, 0)
  /\ events[2].session_id = "s1" /\ events[2].event_ts = Timestamp(0, 1500)
  /\ call.result[1].value = Rat(DAY_MS - 1500, 1000)
  /\ call.result[2].value = RatInt(0)

\* The sessions seen in one record only (one instant).
SingleRecordSessions(evs) ==
  {sid \in SessionIds(evs) :
     Cardinality({i \in 1..Len(evs) : evs[i].session_id = sid /\ evs[i].event_ts.date # InvalidDay}) = 1}

\* C11: computeSessionStats counts every session that has a record with a parseable
\* timestamp, and its average is the sum over those sessions of
\* max(0, latest - earliest) in seconds divided by their number, a single-record
\* session entering the sum with 0 and the divisor with 1; no average of
\* computeSessionStats or of buildDailySessionDurationSeries is negative, and a day
\* on which only single-record sessions start has the average exactly 0.
C11_SessionDurationFloor ==
  /\ call.fn = "computeSessionStats" =>
       LET sids == SessionIds(events)
       IN  /\ call.result.sessionCount = Cardinality(sids)
           /\ call.result.avgDurationSeconds.num >= 0
           /\ call.result.avgDurationSeconds.den > 0
           /\ call.result.avgDurationSeconds =
                IF sids = {} THEN RatInt(0)
                ELSE Rat(TotalSpanMs(events, sids), 1000 * Cardinality(sids))
           /\ (sids # {} /\ sids = SingleRecordSessions(events)) =>
                call.result.avgDurationSeconds = RatInt(0)
  /\ call.fn = "buildDailySessionDurationSeries" =>
       \A n \in 1..Len(call.result) :
         /\ call.result[n].value.num >= 0
         /\ call.result[n].value.den > 0
         /\ (SessionsStartingOn(events, call.result[n].label) \subseteq SingleRecordSessions(events)) =>
              call.result[n].value = RatInt(0)

\* A single-record session and a session of two records seen latest first: two
\* sessions, and an average of half the span of the second.
C11_Witness ==
  /\ call.fn = "computeSessionStats"
  /\ Len(events) = 3
  /\ events[1].session_id = "s2" /\ events[1].event_ts = Timestamp(1, 0)
  /\ events[2].session_id = "s1" /\ events[2].event_ts = Timestamp(0, 1500)
  /\ events[3].session_id = "s2" /\ events[3].event_ts = Timestamp(0, 1500)
  /\ call.result.sessionCount = 2
  /\ call.result.avgDurationSeconds = Rat(DAY_MS - 1500, 2000)

(***************************************************************************)
(* SpecDaily: the three daily groupings over the slices of SpecBuckets.    *)
(***************************************************************************)
CallGroupDaily ==
  /\ call' = [fn |-> "groupDaily", arg |-> 0, result |-> groupDaily(events)]
  /\ UNCHANGED <<events, range, hookVars>>

CallGroupTerminalDaily ==
  /\ call' = [fn |-> "groupTerminalDaily", arg |-> 0, result |-> groupTerminalDaily(events)]
  /\ UNCHANGED <<events, range, hookVars>>

NextDaily == CallBuildDailyBuckets \/ CallGroupDaily \/ CallGroupTerminalDaily

SpecDaily == InitBuckets /\ [][NextDaily]_vars

\* C8: a record whose timestamp does not parse contributes to no entry of a daily
\* series: every entry of buildDailyBuckets, groupDaily and groupTerminalDaily is
\* keyed by a real calendar day, and its event counter counts only the records whose
\* timestamp parses to that day.
C8_UnparseableExcluded ==
  call.fn \in {"buildDailyBuckets", "groupDaily", "groupTerminalDaily"} =>
    \A i \in 1..Len(call.result) :
      /\ call.result[i].day # InvalidDay
      /\ call.fn \in {"buildDailyBuckets", "groupDaily"} =>
           call.result[i].events = Cardinality(OnDay(events, call.result[i].day))

(***************************************************************************)
(* SpecRates: the success and error rates over every slice of up to MaxLen *)
(* events, each with success true / false / null and in one of two agent   *)
(* phases or none.                                                         *)
(***************************************************************************)
RateEvents ==
  {[BaseEvent EXCEPT !.event_ts = Timestamp(0, 0), !.success = sc, !.phase = p.phase,
                     !.event_name = p.event_name, !.duration_ms = p.duration_ms] :
     sc \in {"true", "false", "null"},
     p \in {[phase |-> Null, event_name |-> "terminal_message_send", duration_ms |-> NaN],
            [phase |-> "planning", event_name |-> "terminal_agent_plan_ready", duration_ms |-> NaN],
            [phase |-> "answering", event_name |-> "terminal_agent_answer_done",
             duration_ms |-> 2000]}}

InitRates ==
  /\ events \in SeqsUpTo(RateEvents, MaxLen)
  /\ range = [start |-> 0, end |-> 0]
  /\ call = NoCall
  /\ HookIdle

CallComputeSuccessRate ==
  /\ call' = [fn |-> "computeSuccessRate", arg |-> 0, result |-> computeSuccessRate(events)]
  /\ UNCHANGED <<events, range, hookVars>>

CallComputeTerminalStats ==
  /\ call' = [fn |-> "computeTerminalStats", arg |-> 0, result |-> computeTerminalStats(events)]
  /\ UNCHANGED <<events, range, hookVars>>

CallComputeErrorRateByPhase ==
  /\ call' = [fn |-> "computeErrorRateByPhase", arg |-> 0,
              result |-> computeErrorRateByPhase(events)]
  /\ UNCHANGED <<events, range, hookVars>>

NextRates ==
  \/ CallComputeSuccessRate
  \/ CallComputeTerminalStats
  \/ CallComputeErrorRateByPhase
  \/ CallBuildDailyBuckets

SpecRates == InitRates /\ [][NextRates]_vars

\* The records with a boolean success flag, and those with success = true.
Flagged(evs) == {j \in 1..Len(evs) : evs[j].success \in {"true", "false"}}

Succeeded(evs) == {j \in 1..Len(evs) : evs[j].success = "true"}

\* C3 for computeSuccessRate, the daily buckets and computeTerminalStats: the
\* denominator of the rate is the number of records with a boolean success.
C3_FlaggedDenominator ==
  /\ (call.fn \in {"computeSuccessRate", "computeTerminalStats"} /\ Flagged(events) # {}) =>
       call.result.successRate = Rat(Cardinality(Succeeded(events)), Cardinality(Flagged(events)))
  /\ call.fn = "buildDailyBuckets" =>
       \A i \in 1..Len(call.result) :
         call.result[i].successTotal =
           Cardinality(Flagged(events) \cap OnDay(events, call.result[i].day))

\* C3 for computeErrorRateByPhase: the rate of a phase is the number of its records
\* with success = false over the number of its records with a boolean success.
C3_PhaseDenominator ==
  call.fn = "computeErrorRateByPhase" =>
    \A i \in 1..Len(call.result) :
      LET inPhase == {j \in Flagged(events) : events[j].phase = call.result[i].label}
          failed == {j \in inPhase : events[j].success = "false"}
      IN  /\ call.result[i].title.total = Cardinality(inPhase)
          /\ inPhase # {} =>
               call.result[i].value = RoundDiv(100 * Cardinality(failed), Cardinality(inPhase))

\* C3: no success-rate or error-rate computation counts a record with
\* success = null in its denominator.
C3_NullNotInDenominator == C3_FlaggedDenominator /\ C3_PhaseDenominator

\* C4: computeSuccessRate returns null for successRate and for errorRate when no
\* record has a boolean success (an empty slice included), and otherwise
\* successRate = #true / #boolean and errorRate = 1 - successRate.
C4_SuccessRate ==
  call.fn = "computeSuccessRate" =>
    LET total == Cardinality(Flagged(events))
        good == Cardinality(Succeeded(events))
    IN  IF total = 0
          THEN call.result.successRate = RateNull /\ call.result.errorRate = RateNull
          ELSE /\ call.result.successRate = Rat(good, total)
               /\ call.result.errorRate = Rat(total - good, total)

\* A non-empty slice whose records all have success = null gets null rates.
C4_Witness ==
  /\ call.fn = "computeSuccessRate"
  /\ Len(events) = MaxLen
  /\ \A j \in 1..Len(events) : events[j].success = "null"
  /\ call.result = [successRate |-> RateNull, errorRate |-> RateNull]

\* C5: with no record carrying a boolean success, the success rate of
\* computeTerminalStats is the unavailable value, which is no number.
C5_TerminalRateUnavailable ==
  (call.fn = "computeTerminalStats" /\ Flagged(events) = {}) =>
    call.result.successRate = RateNull

(***************************************************************************)
(* SpecBars: the top-N builders over every slice of up to MaxLen events    *)
(* whose dimension (route, and the same value as referrer) is null, empty, *)
(* blank, a plain value or the string of EMPTY_FILTER_VALUE, with every    *)
(* limit 1..MaxLimit.                                                      *)
(***************************************************************************)
BarValues == {Null, "", " ", "a", EMPTY_FILTER_VALUE}

BarEvents ==
  {[BaseEvent EXCEPT !.event_ts = Timestamp(0, 0), !.route = v, !.referrer = v, !.user_id = u] :
     v \in BarValues, u \in {Null, "u1"}}

InitBars ==
  /\ events \in SeqsUpTo(BarEvents, MaxLen)
  /\ range = [start |-> 0, end |-> 0]
  /\ call = NoCall
  /\ HookIdle

CallBuildBarList ==
  /\ \E limit \in 1..MaxLimit :
       call' = [fn |-> "buildBarList", arg |-> limit,
                result |-> buildBarList(events, "route", limit, "Not set")]
  /\ UNCHANGED <<events, range, hookVars>>

CallBuildTerminalBarList ==
  /\ \E limit \in 1..MaxLimit :
       call' = [fn |-> "buildTerminalBarList", arg |-> limit,
                result |-> buildTerminalBarList(events, "route", limit, "Not set")]
  /\ UNCHANGED <<events, range, hookVars>>

CallBuildDistinctUserBarList ==
  /\ \E limit \in 1..MaxLimit :
       call' = [fn |-> "buildDistinctUserBarList", arg |-> limit,
                result |-> buildDistinctUserBarList(events, "route", limit, "Not set")]
  /\ UNCHANGED <<events, range, hookVars>>

CallBuildUrlBarList ==
  /\ \E limit \in 1..MaxLimit :
       call' = [fn |-> "buildUrlBarList", arg |-> limit,
                result |-> buildUrlBarList(events, "referrer", limit, "Direct")]
  /\ UNCHANGED <<events, range, hookVars>>

NextBars ==
  \/ CallBuildBarList
  \/ CallBuildTerminalBarList
  \/ CallBuildDistinctUserBarList
  \/ CallBuildUrlBarList

SpecBars == InitBars /\ [][NextBars]_vars

\* The records whose dimension is null, empty or whitespace only.
Blank(evs, key) == {j \in 1..Len(evs) : evs[j][key] \in {Null, "", " "}}

\* The records whose dimension holds the string of EMPTY_FILTER_VALUE as a value.
SentinelValued(evs, key) == {j \in 1..Len(evs) : evs[j][key] = EMPTY_FILTER_VALUE}

\* Every bucket of the builder that was called, those beyond the limit included.
AllBuckets ==
  CASE call.fn \in {"buildBarList", "buildTerminalBarList"} -> BarEntries(events, "route", "Not set")
    [] call.fn = "buildDistinctUserBarList" -> DistinctUserEntries(events, "route", "Not set")
    [] call.fn = "buildUrlBarList" -> UrlEntries(events, "referrer", "Direct")
    [] OTHER -> <<>>

RECURSIVE SumValues(_)
SumValues(entries) == IF entries = <<>> THEN 0 ELSE Head(entries).value + SumValues(Tail(entries))

\* C6: over N records of which K have a null, empty or blank dimension, buildBarList
\* has a fallback bucket of value exactly K (no fallback bucket of another value),
\* the returned list is the head of the bucket list, and the values of all buckets
\* sum to N.
C6_FallbackNonLoss ==
  call.fn \in {"buildBarList", "buildTerminalBarList"} =>
    LET K == Cardinality(Blank(events, "route"))
    IN  /\ K > 0 => \E i \in 1..Len(AllBuckets) : AllBuckets[i].isFallback
        /\ \A i \in 1..Len(AllBuckets) : AllBuckets[i].isFallback => AllBuckets[i].value = K
        /\ call.result = SubSeq(AllBuckets, 1, Len(call.result))
        /\ SumValues(AllBuckets) = Len(events)

\* C7: when the slice holds records with no value and records whose value is the
\* string of EMPTY_FILTER_VALUE, the builder keeps two buckets: the fallback bucket
\* and a bucket of the real value that is no fallback.
C7_SentinelNotConflated ==
  (/\ call.fn \in {"buildBarList", "buildDistinctUserBarList", "buildUrlBarList"}
   /\ Blank(events, "route") # {}
   /\ SentinelValued(events, "route") # {}) =>
    \E i, j \in 1..Len(AllBuckets) :
      /\ i # j
      /\ AllBuckets[i].isFallback
      /\ ~AllBuckets[j].isFallback
      /\ AllBuckets[j].label = EMPTY_FILTER_VALUE

(***************************************************************************)
(* SpecAi: the AI module classification over every slice of up to MaxLen   *)
(* events.  The generic event carries each spelling of a module feature,   *)
(* an unknown feature or none; the module-run events and the events that   *)
(* are no AI event carry a feature too.                                    *)
(***************************************************************************)
AiEvents ==
  {[BaseEvent EXCEPT !.event_ts = p[1], !.event_name = p[2], !.feature = p[3]] :
     p \in {<<Timestamp(0, 0), "analysis_run", "Valuai_AI">>,
            <<Timestamp(1, 0), "analysis_run", " Valuai_AI ">>,
            <<Timestamp(0, 0), "analysis_run", "valuai">>,
            <<Timestamp(0, 0), "analysis_run", "Qualitativo">>,
            <<Timestamp(0, 0), "analysis_run", "qualitativo_ai">>,
            <<Timestamp(0, 0), "analysis_run", "VALIDADOR">>,
            <<Timestamp(0, 0), "analysis_run", "other">>,
            <<Timestamp(0, 0), "analysis_run", Null>>,
            <<Unparseable, "analysis_run", "">>,
            <<Timestamp(0, 0), "validator_run", Null>>,
            <<Timestamp(1, 0), "qualitativo_run", "valuai">>,
            <<Timestamp(0, 0), "valuai_run", "valuai">>,
            <<Timestamp(0, 0), "page_view", "valuai">>,
            <<Timestamp(0, 0), "report_view", Null>>}}

InitAi ==
  /\ events \in SeqsUpTo(AiEvents, MaxLen)
  /\ range = [start |-> 0, end |-> 1]
  /\ call = NoCall
  /\ HookIdle

\* getAiModuleKey(event) for one event of the slice (arg is its position)
CallGetAiModuleKey ==
  /\ \E i \in 1..Len(events) :
       call' = [fn |-> "getAiModuleKey", arg |-> i, result |-> getAiModuleKey(events[i])]
  /\ UNCHANGED <<events, range, hookVars>>

CallBuildAiProductSeries ==
  /\ call' = [fn |-> "buildAiProductSeries", arg |-> 0,
              result |-> buildAiProductSeries(events, range)]
  /\ UNCHANGED <<events, range, hookVars>>

CallAiTopModules ==
  /\ call' = [fn |-> "aiTopModules", arg |-> 0, result |-> aiTopModules(events)]
  /\ UNCHANGED <<events, range, hookVars>>

NextAi == CallGetAiModuleKey \/ CallBuildAiProductSeries \/ CallAiTopModules

SpecAi == InitAi /\ [][NextAi]_vars

\* The spellings of the two module features: any case, surrounding blanks, and the
\* '_ai' alias.
ValuaiSpellings == {"valuai", "valuai_ai", "Valuai_AI", " Valuai_AI "}

QualitativoSpellings == {"qualitativo", "qualitativo_ai", "Qualitativo"}

\* C12: getAiModuleKey gives 'valuai_run' / 'qualitativo_run' for 'analysis_run'
\* with a spelling of that feature, 'analysis_run' for 'analysis_run' with any other
\* or no feature, the event name for a module-run event name, and null otherwise.
C12_AiModuleKey ==
  call.fn = "getAiModuleKey" =>
    LET event == events[call.arg]
    IN  call.result =
          IF event.event_name = "analysis_run"
            THEN IF event.feature \in ValuaiSpellings THEN "valuai_run"
                 ELSE IF event.feature \in QualitativoSpellings THEN "qualitativo_run"
                 ELSE "analysis_run"
          ELSE IF event.event_name \in
                    {"analysis_run", "validator_run", "qualitativo_run", "valuai_run"}
            THEN event.event_name
          ELSE Null

\* 'analysis_run' with feature 'Valuai_AI' is classified as the valuai module.
C12_Witness ==
  /\ call.fn = "getAiModuleKey"
  /\ events[call.arg].event_name = "analysis_run"
  /\ events[call.arg].feature = "Valuai_AI"
  /\ call.result = "valuai_run"

\* The number of AI events of the slice that getAiModuleKey assigns to the module.
ModuleTotal(evs, m) == Cardinality({j \in 1..Len(evs) : getAiModuleKey(evs[j]) = m})

\* C13: over a slice whose timestamps all parse, the buckets of the top-N AI module
\* breakdown can be attributed to modules so that every module's buckets sum to the
\* total buildAiProductSeries reports for it (the number of events getAiModuleKey
\* assigns to the module).
C13_ModuleBreakdownConsistent ==
  (/\ call.fn = "aiTopModules"
   /\ \A j \in 1..Len(events) : events[j].event_ts.date # InvalidDay) =>
    \E f \in [1..Len(call.result) -> AI_MODULE_KEYS] :
      \A i \in 1..Len(AI_MODULE_DEFS) :
        LET m == AI_MODULE_DEFS[i].key
        IN  /\ buildAiProductSeries(events, range)[i].total = ModuleTotal(events, m)
            /\ SumValues([n \in 1..Len(call.result) |->
                           [value |-> IF f[n] = m THEN call.result[n].value ELSE 0]])
                  = ModuleTotal(events, m)

(***************************************************************************)
(* SpecDistinct: distinctCount(events, 'user_id') over a slice that grows  *)
(* one record at a time up to MaxLen records; the user_id of a record is   *)
(* null, empty, blank or one of three users.                               *)
(***************************************************************************)
DistinctUserIds == {Null, "", " ", "u1", "u2", "u3"}

InitDistinct ==
  /\ events = <<>>
  /\ range = [start |-> 0, end |-> 0]
  /\ call = NoCall
  /\ HookIdle

\* A record is added to the slice and the dashboard recomputes the count; arg keeps
\* the count of the slice before the record was added.
AppendAndCount ==
  /\ Len(events) < MaxLen
  /\ \E u \in DistinctUserIds :
       /\ events' = Append(events, [BaseEvent EXCEPT !.event_ts = Timestamp(0, 0), !.user_id = u])
       /\ call' = [fn |-> "distinctCount", arg |-> distinctCount(events, "user_id"),
                   result |-> distinctCount(events', "user_id")]
  /\ UNCHANGED <<range, hookVars>>

NextDistinct == AppendAndCount

SpecDistinct == InitDistinct /\ [][NextDistinct]_vars

\* C14: distinctCount(slice, 'user_id') is the number of distinct user_id values
\* that are non-blank strings; against the count before the last record was
\* appended it never decreases, is unchanged when that record's user_id is already
\* in the slice or is null or empty, and grows by one for a new user.
C14_DistinctCount ==
  call.fn = "distinctCount" =>
    LET n == Len(events)
        last == events[n].user_id
        seen == {events[j].user_id : j \in 1..(n - 1)}
    IN  /\ call.result = Cardinality({events[j].user_id : j \in 1..n} \ {Null, "", " "})
        /\ call.result >= call.arg
        /\ last \in seen => call.result = call.arg
        /\ last \in {Null, "", " "} => call.result = call.arg
        /\ (last \notin seen /\ last \notin {Null, "", " "}) => call.result = call.arg + 1

\* A user, a record without user and the same user again: the count stays 1.
C14_Witness ==
  /\ call.fn = "distinctCount"
  /\ Len(events) = 3
  /\ events[1].user_id = "u1" /\ events[2].user_id = Null /\ events[3].user_id = "u1"
  /\ call.arg = 1
  /\ call.result = 1

(***************************************************************************)
(* SpecBarOrder: buildBarList over every slice of up to MaxLen events      *)
(* whose route is one of three values or null, with every limit            *)
(* 1..MaxLimit.                                                            *)
(***************************************************************************)
OrderValues == {Null, "a", "b", "c"}

InitBarOrder ==
  /\ events \in SeqsUpTo({[BaseEvent EXCEPT !.event_ts = Timestamp(0, 0), !.route = v] :
                             v \in OrderValues}, MaxLen)
  /\ range = [start |-> 0, end |-> 0]
  /\ call = NoCall
  /\ HookIdle

NextBarOrder == CallBuildBarList \/ CallBuildTerminalBarList

SpecBarOrder == InitBarOrder /\ [][NextBarOrder]_vars

\* The bucket key of a record, the records of a bucket, and the position of the
\* first record of a bucket.
RouteKey(event) == IF event.route = Null THEN EMPTY_FILTER_VALUE ELSE event.route

RecordsOf(evs, k) == {j \in 1..Len(evs) : RouteKey(evs[j]) = k}

FirstSeen(evs, k) == CHOOSE j \in RecordsOf(evs, k) : \A i \in RecordsOf(evs, k) : j <= i

\* Bucket k comes before bucket l: more records, or as many and seen first.
RanksBefore(evs, k, l) ==
  \/ Cardinality(RecordsOf(evs, k)) > Cardinality(RecordsOf(evs, l))
  \/ /\ Cardinality(RecordsOf(evs, k)) = Cardinality(RecordsOf(evs, l))
     /\ FirstSeen(evs, k) < FirstSeen(evs, l)

\* C15: buildBarList returns min(limit, number of buckets) entries, each with the
\* count of its bucket; an earlier entry has a larger count than a later one, or the
\* same count and an earlier first record; and every bucket that is cut off ranks
\* after every entry that is returned.
C15_BarListOrder ==
  call.fn \in {"buildBarList", "buildTerminalBarList"} =>
    LET keys == {RouteKey(events[j]) : j \in 1..Len(events)}
        returned == {call.result[i].key : i \in 1..Len(call.result)}
    IN  /\ Len(call.result) = Min(call.arg, Cardinality(keys))
        /\ returned \subseteq keys
        /\ \A i \in 1..Len(call.result) :
             call.result[i].value = Cardinality(RecordsOf(events, call.result[i].key))
        /\ \A i, j \in 1..Len(call.result) :
             i < j => RanksBefore(events, call.result[i].key, call.result[j].key)
        /\ \A k \in keys \ returned :
             \A i \in 1..Len(call.result) : RanksBefore(events, call.result[i].key, k)

\* Three values with one record each, cut to two: the two seen first, in that order.
C15_Witness ==
  /\ call.fn = "buildBarList"
  /\ call.arg = 2
  /\ Len(events) = 3
  /\ events[1].route = "b" /\ events[2].route = "a" /\ events[3].route = "c"
  /\ Len(call.result) = 2
  /\ call.result[1].key = "b" /\ call.result[2].key = "a"

(***************************************************************************)
(* SpecUrl: buildUrlBarList over every slice of up to MaxLen events whose  *)
(* referrer is null, a bare word, or a URL of one of three sites written   *)
(* with and without scheme, 'www.', deeper path segments and query string. *)
(***************************************************************************)
UrlValues ==
  {Null, "google", "https://www.example.com/blog/post-123?x=1", "example.com/blog/other/page",
   "https://www.example.com/blog", "HTTP://Example.com/blog/", "https://t.co/",
   "https://app.lovable.dev/projects/1", "lovable.dev"}

InitUrl ==
  /\ events \in SeqsUpTo({[BaseEvent EXCEPT !.event_ts = Timestamp(0, 0), !.referrer = v] :
                             v \in UrlValues}, MaxLen)
  /\ range = [start |-> 0, end |-> 0]
  /\ call = NoCall
  /\ HookIdle

NextUrl == CallBuildUrlBarList

SpecUrl == InitUrl /\ [][NextUrl]_vars

\* C16: the list returned by buildUrlBarList never holds two entries with the same
\* label: raw values that normalize to one label are counted in one bucket.
C16_OneBucketPerLabel ==
  call.fn = "buildUrlBarList" =>
    \A i, j \in 1..Len(call.result) :
      call.result[i].label = call.result[j].label => i = j

(***************************************************************************)
(* SpecDailyRates: safeDivide and the per-day rate series over every slice *)
(* of up to MaxLen events on the days 0 and 1 of the range 0..MaxDay, so   *)
(* that the last day of the range never has an event.                      *)
(***************************************************************************)
DailyRateEvents ==
  {e \in BucketEvents : e.event_ts \in {Timestamp(0, 0), Timestamp(1, 0)}}

InitDailyRates ==
  /\ events \in SeqsUpTo(DailyRateEvents, MaxLen)
  /\ range = [start |-> 0, end |-> MaxDay]
  /\ call = NoCall
  /\ HookIdle

CallSafeDivide ==
  /\ \E n \in 0..MaxLen, d \in -1..MaxLen :
       call' = [fn |-> "safeDivide", arg |-> [n |-> n, d |-> d],
                result |-> safeDivide(RatInt(n), d)]
  /\ UNCHANGED <<events, range, hookVars>>

\* One of the rate series of the Dashboard, built from dailyBuckets.
CallDailyRateSeries ==
  /\ \E name \in DailyRateSeriesNames :
       call' = [fn |-> name, arg |-> 0,
                result |-> dailyRateSeries(name, buildDailyBuckets(events, range))]
  /\ UNCHANGED <<events, range, hookVars>>

NextDailyRates == CallSafeDivide \/ CallDailyRateSeries

SpecDailyRates == InitDailyRates /\ [][NextDailyRates]_vars

\* C17: safeDivide(n, d) is n / d for d > 0 and 0 for d <= 0; every per-day rate
\* series has one entry per day of the range, each a fraction with a positive
\* denominator between 0 and 1 (no NaN, no Infinity), and 0 on a day without events.
C17_SafeDivide ==
  /\ call.fn = "safeDivide" =>
       call.result = IF call.arg.d > 0 THEN Rat(call.arg.n, call.arg.d) ELSE RatInt(0)
  /\ call.fn \in DailyRateSeriesNames =>
       /\ Len(call.result) = range.end - range.start + 1
       /\ \A i \in 1..Len(call.result) :
            /\ call.result[i].value.den > 0
            /\ call.result[i].value.num >= 0
            /\ call.result[i].value.num <= call.result[i].value.den
            /\ OnDay(events, call.result[i].label) = {} => call.result[i].value = RatInt(0)

\* The success rate series with 1 / 2 on day 0 and 0 on the days without events.
C17_Witness ==
  /\ call.fn = "dailySuccessRateSeries"
  /\ {events[j].success : j \in OnDay(events, 0)} = {"true", "false"}
  /\ OnDay(events, 1) = {}
  /\ call.result[1].value = Rat(1, 2)
  /\ call.result[2].value = RatInt(0)
  /\ call.result[Len(call.result)].value = RatInt(0)

(***************************************************************************)
(* The batched fetch of useUsageEvents and useTerminalEvents.              *)
(*                                                                         *)
(* A fetch is the closure of one run of the effect: its query, its         *)
(* cancelled flag, the variables of fetchEvents, and the page requests of  *)
(* the batch it awaits, each pending, answered with rows or answered with  *)
(* an error.  stale records whether a batch of the fetch resolved after    *)
(* its cleanup had run, and the state setters it called from then on.  The *)
(* store holds store.size rows that match the query, ordered by event_ts,  *)
(* and fails a request with store.message.                                 *)
(***************************************************************************)
\* A page limit of one page per row, which is no limit on the rows.
maxPagesPerRow == maxRows

\* Math.ceil(maxRows / pageSize)
maxPages == (maxRows + pageSize - 1) \div pageSize

Pages == 0..(maxPages - 1)

\* The n-th row that matches the query of the range starting on the day.
Row(day, n) == [BaseEvent EXCEPT !.event_ts = Timestamp(day, n)]

\* The rows the store returns for .range(from, to) of page pageIndex.
StorePage(day, pageIndex) ==
  LET from == pageIndex * pageSize
      to == Min(from + pageSize - 1, maxRows - 1)
      last == Min(to, store.size - 1)
  IN  [i \in 1..Max(0, last - from + 1) |-> Row(day, from + i - 1)]

NoPage == [set |-> FALSE, data |-> <<>>]

\* batchPages when the inner loop has no limit of maxConcurrency.
RECURSIVE BatchPagesUnlimited(_, _)
BatchPagesUnlimited(batchPages, nextPage) ==
  IF nextPage < maxPages
    THEN BatchPagesUnlimited(Append(batchPages, nextPage), nextPage + 1)
    ELSE batchPages

\* batchPages of the next turn of the while loop
RECURSIVE BatchPages(_, _)
BatchPages(batchPages, nextPage) ==
  IF Len(batchPages) < maxConcurrency /\ nextPage < maxPages
    THEN BatchPages(Append(batchPages, nextPage), nextPage + 1)
    ELSE batchPages

\* The fetch after it has issued the requests of its next batch.
IssueBatch(f) ==
  LET batchPages == BatchPages(<<>>, f.nextPage)
  IN  [f EXCEPT !.batch = batchPages,
                !.nextPage = f.nextPage + Len(batchPages),
                !.responses = [p \in Pages |->
                                 IF \E k \in 1..Len(batchPages) : batchPages[k] = p
                                   THEN "pending" ELSE "none"]]

\* fetchEvents up to its first await
NewFetch(day) ==
  IssueBatch([day |-> day, cancelled |-> FALSE, nextPage |-> 0, done |-> FALSE,
              pageResults |-> [p \in Pages |-> NoPage], batch |-> <<>>,
              responses |-> [p \in Pages |-> "none"], finished |-> FALSE,
              stale |-> [resolved |-> FALSE, writes |-> {}]])

\* The text of setError when the message of the failed page is never used.
ErrorTextDefaultOnly(message) == "Failed to load events"

\* result.error.message || 'Failed to load events'
ErrorText(message) == IF message = "" THEN "Failed to load events" ELSE message

\* The for loop over batchResults that goes on after a failed page.
RECURSIVE ForResultsNoBreak(_, _, _)
ForResultsNoBreak(f, k, acc) ==
  IF k > Len(f.batch) THEN acc
  ELSE LET pageIndex == f.batch[k]
           data == StorePage(f.day, pageIndex)
       IN  IF f.responses[pageIndex] = "error"
             THEN ForResultsNoBreak(f, k + 1,
                                    [acc EXCEPT !.done = TRUE, !.error = ErrorText(store.message)])
             ELSE ForResultsNoBreak(f, k + 1,
                    [acc EXCEPT !.pageResults[pageIndex] = [set |-> TRUE, data |-> data],
                                !.done = acc.done \/ Len(data) < pageSize])

\* for (const result of batchResults): Promise.all gives the results in the order
\* of batchPages; acc holds pageResults, done and the text handed to setError.
RECURSIVE ForResults(_, _, _)
ForResults(f, k, acc) ==
  IF k > Len(f.batch) THEN acc
  ELSE LET pageIndex == f.batch[k]
           data == StorePage(f.day, pageIndex)
       IN  IF f.responses[pageIndex] = "error"
             THEN [acc EXCEPT !.done = TRUE, !.error = ErrorText(store.message)]
             ELSE ForResults(f, k + 1,
                    [acc EXCEPT !.pageResults[pageIndex] = [set |-> TRUE, data |-> data],
                                !.done = acc.done \/ Len(data) < pageSize])

\* pageResults.flat(): the pages that were set, in the order of their index
RECURSIVE Flat(_, _)
Flat(pageResults, n) ==
  IF n = 0 THEN <<>>
  ELSE Flat(pageResults, n - 1) \o (IF pageResults[n - 1].set THEN pageResults[n - 1].data ELSE <<>>)

NoWrites ==
  [setError |-> [called |-> FALSE, value |-> Null],
   setTruncated |-> [called |-> FALSE, value |-> FALSE],
   setEvents |-> [called |-> FALSE, value |-> <<>>],
   setLoading |-> [called |-> FALSE, value |-> FALSE]]

\* fetchEvents has returned: nothing refers to its variables any more.
Finished(f) ==
  [f EXCEPT !.finished = TRUE, !.nextPage = 0, !.done = FALSE,
            !.pageResults = [p \in Pages |-> NoPage], !.batch = <<>>,
            !.responses = [p \in Pages |-> "none"]]

\* fetchEvents from the resolution of Promise.all to its next await or its end, with
\* the value it reads from the cancelled flag: the fetch afterwards and the state
\* setters it calls.
AfterBatch(f, cancelled) ==
  IF cancelled THEN [fetch |-> Finished(f), writes |-> NoWrites]
  ELSE LET acc == ForResults(f, 1, [pageResults |-> f.pageResults, done |-> f.done,
                                    error |-> Null])
           looped == [f EXCEPT !.pageResults = acc.pageResults, !.done = acc.done]
           setError == [called |-> acc.error # Null, value |-> acc.error]
           all == Flat(acc.pageResults, maxPages)
       IN  IF ~acc.done /\ f.nextPage < maxPages
             THEN [fetch |-> IssueBatch(looped), writes |-> [NoWrites EXCEPT !.setError = setError]]
             ELSE [fetch |-> Finished(looped),
                   writes |-> [setError |-> setError,
                               setTruncated |-> [called |-> Len(all) >= maxRows, value |-> TRUE],
                               setEvents |-> [called |-> TRUE, value |-> all],
                               setLoading |-> [called |-> TRUE, value |-> FALSE]]]

\* The continuation of a fetch that never looks at its cancelled flag.
ResolveBatchIgnoringCancel(f) == AfterBatch(f, FALSE)

ResolveBatch(f) == AfterBatch(f, f.cancelled)

\* The names of the state setters that a continuation calls.
Called(writes) == {name \in DOMAIN writes : writes[name].called}

(***************************************************************************)
(* SpecFetch: the fetch hook from its mount on, over a store that holds no *)
(* row, or one row less than, exactly or one row more than maxRows; the    *)
(* range is day 0 or has its start cleared, the hook is                    *)
(* enabled or not, and range, enabled and the refresh key (or the filters) *)
(* change at any time, while page requests are answered in any order.      *)
(***************************************************************************)
\* A cleared bound is the empty string, which is no date.
FetchRanges == {[start |-> 0, end |-> 0], [start |-> InvalidDay, end |-> 0]}

Stores == [size : {0, maxRows - 1, maxRows, maxRows + 1}, message : {"", "timeout"}]

\* !enabled || !range.start || !range.end: the effect returns without a fetch
EffectSkips(rng, on) == ~on \/ rng.start = InvalidDay \/ rng.end = InvalidDay

\* The cleanup of the effect: cancelled = true in the closure of its last run.
Cleanup(fs) == [i \in 1..Len(fs) |-> IF i = Len(fs) THEN [fs[i] EXCEPT !.cancelled = TRUE] ELSE fs[i]]

\* A dependency of the effect changed: the cleanup of its last run, then the effect
\* with the new range and enabled, which starts a fetch unless it returns early.
EffectRuns(rng, on) ==
  /\ range' = rng
  /\ enabled' = on
  /\ IF EffectSkips(rng, on)
       THEN /\ fetches' = Cleanup(fetches)
            /\ UNCHANGED <<loading, error, truncated>>
       ELSE /\ Len(fetches) < MaxFetches
            /\ fetches' = Append(Cleanup(fetches), NewFetch(rng.start))
            /\ loading' = TRUE
            /\ error' = Null
            /\ truncated' = FALSE
  /\ UNCHANGED <<events, call, store>>

\* The hook after the first render and the effect of the mount.
InitFetch ==
  /\ events = <<>>
  /\ call = NoCall
  /\ range \in FetchRanges
  /\ enabled \in BOOLEAN
  /\ store \in Stores
  /\ truncated = FALSE
  /\ error = Null
  /\ IF EffectSkips(range, enabled)
       THEN fetches = <<>> /\ loading = FALSE
       ELSE fetches = <<NewFetch(range.start)>> /\ loading = TRUE

ChangeRange == \E rng \in FetchRanges \ {range} : EffectRuns(rng, enabled)

SetEnabled == EffectRuns(range, ~enabled)

\* refreshKey or filters changed
Refresh == EffectRuns(range, enabled)

\* The store answers one page request of a fetch, with rows or with an error.
PageResponds ==
  /\ \E i \in 1..Len(fetches), pageIndex \in Pages, outcome \in {"ok", "error"} :
       /\ fetches[i].responses[pageIndex] = "pending"
       /\ fetches' = [fetches EXCEPT ![i].responses[pageIndex] = outcome]
  /\ UNCHANGED <<events, range, call, loading, error, truncated, enabled, store>>

\* Promise.all of a batch resolves and fetchEvents runs to its next await or its end.
BatchResolves ==
  /\ \E i \in 1..Len(fetches) :
       LET f == fetches[i]
           after == ResolveBatch(f)
           writes == after.writes
       IN  /\ ~f.finished
           /\ \A k \in 1..Len(f.batch) : f.responses[f.batch[k]] # "pending"
           /\ fetches' = [fetches EXCEPT ![i] =
                 [after.fetch EXCEPT !.stale =
                    IF f.cancelled
                      THEN [resolved |-> TRUE, writes |-> f.stale.writes \cup Called(writes)]
                      ELSE f.stale]]
           /\ error' = IF writes.setError.called THEN writes.setError.value ELSE error
           /\ truncated' = IF writes.setTruncated.called THEN writes.setTruncated.value
                           ELSE truncated
           /\ events' = IF writes.setEvents.called THEN writes.setEvents.value ELSE events
           /\ loading' = IF writes.setLoading.called THEN writes.setLoading.value ELSE loading
  /\ UNCHANGED <<range, call, enabled, store>>

NextFetch == ChangeRange \/ SetEnabled \/ Refresh \/ PageResponds \/ BatchResolves

SpecFetch == InitFetch /\ [][NextFetch]_vars

\* C19: no fetch calls setEvents, setLoading, setError or setTruncated once the
\* cleanup of its effect has run, in whatever order and at whatever time its page
\* requests are answered.
C19_SupersededNeverWrites ==
  \A i \in 1..Len(fetches) : fetches[i].stale.writes = {}

\* A batch of a superseded fetch resolved after the next fetch had started, and the
\* hook still shows the loading state of the newer fetch.
C19_Witness ==
  /\ Len(fetches) = 2
  /\ fetches[1].stale.resolved
  /\ fetches[1].finished
  /\ ~fetches[2].finished
  /\ store.size > 0
  /\ events = <<>>
  /\ loading

\* The first k pages of the store for the query of the day, in the order of their
\* index.
RECURSIVE ConcatPages(_, _)
ConcatPages(day, k) ==
  IF k = 0 THEN <<>> ELSE ConcatPages(day, k - 1) \o StorePage(day, k - 1)

\* C20: the slice in events is always the concatenation of the pages 0 .. k - 1 of
\* the query, for some k, in ascending order of the page index.
C20_PagesInOrder ==
  \E k \in 0..maxPages : events = ConcatPages(0, k)

\* A slice with the pages of two batches.
C20_Witness ==
  /\ Len(events) > maxConcurrency * pageSize
  /\ \E k \in 0..maxPages : events = ConcatPages(0, k)
  /\ \E i \in 1..Len(fetches) : fetches[i].finished /\ ~fetches[i].cancelled

\* The last run of the effect has returned from fetchEvents, was never superseded
\* and observed no failed page: its final block wrote the state the hook exposes.
CompletedWithoutError ==
  /\ Len(fetches) > 0
  /\ fetches[Len(fetches)].finished
  /\ ~fetches[Len(fetches)].cancelled
  /\ error = Null

\* C21: after a fetch that completed without a page error, truncated is true exactly
\* when the store holds more than maxRows rows that match the query; with maxRows
\* rows or fewer it is false.
C21_TruncatedIffOverCap ==
  CompletedWithoutError => (truncated <=> store.size > maxRows)

\* The continuation of fetch i runs in this step: its batch was answered in full and
\* is replaced by the next batch or dropped at the end of fetchEvents.
Observes(i) ==
  /\ ~fetches[i].finished
  /\ \A k \in 1..Len(fetches[i].batch) : fetches[i].responses[fetches[i].batch[k]] # "pending"
  /\ fetches'[i].batch # fetches[i].batch

\* A page of the batch that fetch i awaits was answered with an error.
BatchFailed(i) ==
  \E k \in 1..Len(fetches[i].batch) : fetches[i].responses[fetches[i].batch[k]] = "error"

Contains(slice, page) ==
  \A n \in 1..Len(page) : \E j \in 1..Len(slice) : slice[j] = page[n]

\* C23: when a fetch that was not superseded observes a failed page, the slice it
\* hands to setEvents contains every page it has fetched with success: the pages of
\* the earlier batches and the pages of this batch that were answered with rows.
C23_PartialResultsDelivered ==
  [][\A i \in 1..Len(fetches) :
       (Observes(i) /\ BatchFailed(i) /\ ~fetches[i].cancelled) =>
         /\ \A p \in Pages :
              fetches[i].pageResults[p].set => Contains(events', fetches[i].pageResults[p].data)
         /\ \A k \in 1..Len(fetches[i].batch) :
              fetches[i].responses[fetches[i].batch[k]] = "ok" =>
                Contains(events', StorePage(fetches[i].day, fetches[i].batch[k]))]_vars

\* Some fetch has run its final block: events is the slice of the last such fetch.
\* A fetch is finished either by that block or by the break of a superseded run, and
\* stale.resolved tells the two apart.
Delivered ==
  \E i \in 1..Len(fetches) : fetches[i].finished /\ ~fetches[i].stale.resolved

\* The slice the hook exposes was cut short, by a failed page or by the row cap: it
\* was handed to setEvents and holds fewer rows than the store has for the query.
CutShort == Delivered /\ Len(events) < store.size

\* C24: whenever the slice in events was cut short, error is set or truncated is
\* true in the same state, also while a later fetch is in progress.
C24_PartialSliceIsFlagged == CutShort => (error # Null \/ truncated)

\* The page requests of fetch i that the store has not answered yet.
InFlight(i) == {p \in Pages : fetches[i].responses[p] = "pending"}

SequentialPage(day, from) ==
  LET last == Min(from + pageSize - 1, store.size - 1)
  IN  [i \in 1..Max(0, last - from + 1) |-> Row(day, from + i - 1)]

\* fetchEvents of the sequential variant up to its first await
NewSequentialFetch(day) ==
  [day |-> day, cancelled |-> FALSE, from |-> 0, all |-> <<>>, finished |-> FALSE,
   stale |-> [resolved |-> FALSE, writes |-> {}]]

\* The end of fetchEvents after the loop: if (!cancelled) { setEvents; setLoading }
SequentialEnd(f, all, writes) ==
  [fetch |-> [f EXCEPT !.finished = TRUE, !.from = 0, !.all = <<>>],
   writes |-> IF f.cancelled THEN writes
              ELSE [writes EXCEPT !.setEvents = [called |-> TRUE, value |-> all],
                                  !.setLoading = [called |-> TRUE, value |-> FALSE]]]

\* fetchEvents from the answer of its request to its next await or its end: the
\* fetch afterwards and the state setters it calls.
AfterPage(f, outcome) ==
  LET rows == SequentialPage(f.day, f.from)
      all == f.all \o rows
  IN  IF outcome = "error"
        THEN SequentialEnd(f, f.all,
               [NoWrites EXCEPT !.setError = [called |-> TRUE, value |-> ErrorText(store.message)]])
      ELSE IF Len(rows) < pageSize THEN SequentialEnd(f, all, NoWrites)
      ELSE IF Len(all) >= maxRows
        THEN SequentialEnd(f, all,
               [NoWrites EXCEPT !.setTruncated = [called |-> TRUE, value |-> TRUE]])
      ELSE [fetch |-> [f EXCEPT !.all = all, !.from = f.from + pageSize], writes |-> NoWrites]

\* A dependency of the effect changed: cleanup, then the effect of the sequential
\* variant with the new range and enabled.
SequentialEffectRuns(rng, on) ==
  /\ range' = rng
  /\ enabled' = on
  /\ IF EffectSkips(rng, on)
       THEN /\ fetches' = Cleanup(fetches)
            /\ UNCHANGED <<loading, error, truncated>>
       ELSE /\ Len(fetches) < MaxFetches
            /\ fetches' = Append(Cleanup(fetches), NewSequentialFetch(rng.start))
            /\ loading' = TRUE
            /\ error' = Null
            /\ truncated' = FALSE
  /\ UNCHANGED <<events, call, store>>

InitSequential ==
  /\ events = <<>>
  /\ call = NoCall
  /\ range \in FetchRanges
  /\ enabled \in BOOLEAN
  /\ store \in Stores
  /\ truncated = FALSE
  /\ error = Null
  /\ IF EffectSkips(range, enabled)
       THEN fetches = <<>> /\ loading = FALSE
       ELSE fetches = <<NewSequentialFetch(range.start)>> /\ loading = TRUE

SequentialChangeRange == \E rng \in FetchRanges \ {range} : SequentialEffectRuns(rng, enabled)

SequentialSetEnabled == SequentialEffectRuns(range, ~enabled)

SequentialRefresh == SequentialEffectRuns(range, enabled)

\* The store answers the request of a fetch, with rows or with an error, and
\* fetchEvents runs to its next await or its end.
PageReturns ==
  /\ \E i \in 1..Len(fetches), outcome \in {"ok", "error"} :
       LET f == fetches[i]
           after == AfterPage(f, outcome)
           writes == after.writes
       IN  /\ ~f.finished
           /\ fetches' = [fetches EXCEPT ![i] =
                 [after.fetch EXCEPT !.stale =
                    IF f.cancelled
                      THEN [resolved |-> TRUE, writes |-> f.stale.writes \cup Called(writes)]
                      ELSE f.stale]]
           /\ error' = IF writes.setError.called THEN writes.setError.value ELSE error
           /\ truncated' = IF writes.setTruncated.called THEN writes.setTruncated.value
                           ELSE truncated
           /\ events' = IF writes.setEvents.called THEN writes.setEvents.value ELSE events
           /\ loading' = IF writes.setLoading.called THEN writes.setLoading.value ELSE loading
  /\ UNCHANGED <<range, call, enabled, store>>

NextSequential ==
  SequentialChangeRange \/ SequentialSetEnabled \/ SequentialRefresh \/ PageReturns

SpecSequential == InitSequential /\ [][NextSequential]_vars

\* C26: in the sequential variant no fetch calls setEvents, setLoading, setError or
\* setTruncated once the cleanup of its effect has run.
C26_SequentialSupersededNeverWrites ==
  \A i \in 1..Len(fetches) : fetches[i].stale.writes = {}

\* The fetch hook when the store answers every request and every continuation of
\* fetchEvents is run by the event loop; range, enabled, filters and the refresh key
\* change only when the user acts, which nothing forces.
SpecFetchLive == SpecFetch /\ WF_vars(PageResponds) /\ WF_vars(BatchResolves)

\* C27: loading does not stay true forever: whatever the changes of range, filters,
\* refresh key and enabled, some of them while a fetch is in flight, once they have
\* stopped and every request is answered, loading is false from then on.
C27_LoadingEnds == <>[](~loading)

\* C28: a batched fetch issues at most ceil(maxRows / pageSize) page requests, the
\* requests issued so far being the pages below nextPage, and the slice handed to
\* setEvents has at most maxRows rows, also when the store has more rows than that.
C28_BoundedRequests ==
  /\ \A i \in 1..Len(fetches) : fetches[i].nextPage * pageSize < maxRows + pageSize
  /\ Len(events) <= maxRows

\* Over a store with more than maxRows rows, one fetch has delivered maxRows rows and
\* the fetch of a refresh has issued its last batch.
C28_Witness ==
  /\ store.size > maxRows
  /\ Len(events) = maxRows
  /\ Len(fetches) = 2
  /\ ~fetches[2].finished
  /\ fetches[2].nextPage * pageSize >= maxRows
  /\ fetches[2].batch # <<>>

(***************************************************************************)
(* applyFilter (hooks): a query is the rows of the store it selects.       *)
(***************************************************************************)
\* query.is(column, null)
IsNull(rows, column) == SelectSeq(rows, LAMBDA row : row[column] = Null)

\* query.eq(column, value): a comparison with NULL is never true in SQL
Eq(rows, column, value) == SelectSeq(rows, LAMBDA row : row[column] # Null /\ row[column] = value)

applyFilter(query, column, value) ==
  IF ~Truthy(value) THEN query
  ELSE IF value = EMPTY_FILTER_VALUE THEN IsNull(query, column)
  ELSE Eq(query, column, value)

(***************************************************************************)
(* SpecFilter: the rows of the store for the range are the slice in        *)
(* events; a breakdown by route is built from the slice, and a row of it   *)
(* is selected as the route filter of the next query.                      *)
(***************************************************************************)
FilterValues == {Null, "", " ", "a", "b"}

InitFilter ==
  /\ events \in SeqsUpTo({[BaseEvent EXCEPT !.event_ts = Timestamp(0, 0), !.route = v] :
                             v \in FilterValues}, MaxLen)
  /\ range = [start |-> 0, end |-> 0]
  /\ call = NoCall
  /\ HookIdle

\* handleFilterSelect('route', valueKey) with the key of a row of the breakdown, and
\* the query of the next fetch
CallApplyFilter ==
  /\ \E k \in 1..Len(BarEntries(events, "route", "Not set")) :
       LET value == BarEntries(events, "route", "Not set")[k].key
       IN  call' = [fn |-> "applyFilter", arg |-> value,
                    result |-> applyFilter(events, "route", value)]
  /\ UNCHANGED <<events, range, hookVars>>

NextFilter == CallBuildBarList \/ CallApplyFilter

SpecFilter == InitFilter /\ [][NextFilter]_vars

\* The value of the fallback row of the breakdown by route, 0 when it has none.
FallbackCount ==
  SumValues(SelectSeq(BarEntries(events, "route", "Not set"),
                      LAMBDA entry : entry.key = EMPTY_FILTER_VALUE))

\* C29: the query filtered by the fallback row of a breakdown selects exactly the
\* records that the row counted: as many rows as the value of the row, each of them
\* a record without a value for the dimension.
C29_FallbackFilterMatchesBucket ==
  (call.fn = "applyFilter" /\ call.arg = EMPTY_FILTER_VALUE) =>
    /\ Len(call.result) = FallbackCount
    /\ call.result = SelectSeq(events, LAMBDA event : ~HasValue(event.route))

(***************************************************************************)
(* The WAU figure of the Dashboard.                                        *)
(***************************************************************************)
\* events.filter(...) with start.getTime() and end.getTime() as bounds
filterByDateRange(evs, start, end) ==
  SelectSeq(evs, LAMBDA event :
                   /\ ~IsNaN(GetTime(event.event_ts))
                   /\ GetTime(event.event_ts) >= start
                   /\ GetTime(event.event_ts) <= end)

\* new Date(`${range.end}T23:59:59.999Z`).getTime()
endDate(rng) == rng.end * DAY_MS + (DAY_MS - 1)

\* new Date(endDate.getTime() - 6 * 24 * 60 * 60 * 1000).getTime()
last7Start(rng) == endDate(rng) - 6 * DAY_MS

wau(evs, rng) == distinctCount(filterByDateRange(evs, last7Start(rng), endDate(rng)), "user_id")

\* buildRollingUsersSeries(dailyBuckets, 7)
rollingWauSeries(evs, rng) == buildRollingUsersSeries(buildDailyBuckets(evs, rng), 7)

(***************************************************************************)
(* SpecWau: a range of 7 or 8 days from day 0 on, and slices of events     *)
(* inside it, at the first and the last millisecond of the first, the      *)
(* second and the last day of the range.                                   *)
(***************************************************************************)
WauEnds == {6, 7}

WauEvents(end) ==
  {[BaseEvent EXCEPT !.event_ts = Timestamp(day, tod), !.user_id = user] :
     day \in {0, 1, end}, tod \in {0, DAY_MS - 1}, user \in {"u1", "u2"}}

InitWau ==
  /\ \E end \in WauEnds :
       /\ range = [start |-> 0, end |-> end]
       /\ events \in SeqsUpTo(WauEvents(end), MaxLen)
  /\ call = NoCall
  /\ HookIdle

CallWau ==
  /\ call' = [fn |-> "wau", arg |-> 7, result |-> wau(events, range)]
  /\ UNCHANGED <<events, range, hookVars>>

CallRollingWauSeries ==
  /\ call' = [fn |-> "rollingWauSeries", arg |-> 7, result |-> rollingWauSeries(events, range)]
  /\ UNCHANGED <<events, range, hookVars>>

NextWau == CallWau \/ CallRollingWauSeries

SpecWau == InitWau /\ [][NextWau]_vars

\* C30: for a range of 7 days or more and a slice inside it, the WAU figure equals
\* the last value of the rolling 7-day series: the number of users active on any of
\* the last 7 calendar days of the range, the earliest of them included.
C30_WauIsLastRollingValue ==
  call.fn = "wau" =>
    call.result = rollingWauSeries(events, range)[Len(rollingWauSeries(events, range))].value

====
